---- MODULE Spec2Model ----
(***************************************************************************)
(* Model of core/libdeno.rs: the embedding layer that drives one V8        *)
(* isolate (DenoIsolate) through execute / module / respond calls and      *)
(* carries send/recv messages between JavaScript and the host.             *)
(*                                                                         *)
(* The host, the JavaScript program and the engine are nondeterministic:   *)
(* the host chooses which API function to call next (at top level or from  *)
(* inside its recv_cb), the JavaScript that is running chooses to call     *)
(* Deno.core.send, Deno.core.recv, to throw or to finish.  A Rust panic    *)
(* (a failed assert!/unwrap/expect) ends the run: `fatal` names it and no  *)
(* action is enabled afterwards.                                           *)
(***************************************************************************)
EXTENDS Integers, Sequences, FiniteSets, TLC

\* ------------------------------------------------------------------ bounds
\* Deepest call stack explored (execute > send > execute > send).
MaxDepth == 4
\* Longest borrowed buffer drawn for the import round trip.
MaxLen == 2
\* Most invocations of the JS recv function in one run.
MaxRecv == 2
\* Most invocations of the JS recv function in one run of the whole API.
MaxApiRecv == 1
\* Most modules registered in one run.
MaxMods == 2
\* Largest index the host asks deno_mod_imports_get for.
MaxIndex == 2

\* ------------------------------------------------------------ value sets
\* std::ptr::null_mut() / std::ptr::null(): the null pointer, also an empty
\* v8::Global handle and Option::None of a callback.
NullPtr == 0
\* user_data pointers the host passes.
UserDatas == {NullPtr, 1, 2}

\* An OpId is a u32, held as its two 16-bit halves (hi * 2^16 + lo).
U32(hi, lo) == [hi |-> hi, lo |-> lo]

\* A JS integer: a sign and a magnitude held the same way.
JsInt(sign, hi, lo) == [sign |-> sign, hi |-> hi, lo |-> lo]

\* The op ids drawn: 7 and 2^32 - 1.
OpIds == {U32(0, 7), U32(65535, 65535)}
ByteVals == {1, 2}
\* JS functions handed to Deno.core.recv.
JsFns == {1, 2}

\* A script or module source is known by what the engine does with it.
Scripts == {"ok.js", "bad.js"}
Sources == {"bad", "imp"}
Names == {"a.js"}
Specifiers == {"./x", "./y"}
\* An import specifier with a NUL character in it (import "./n\0").
NulSpecifier == "./n\\0"

NoExc == <<>>
JsExcs == {<<"Error: boom">>}
NullExc == <<"null">>
SyntaxError == <<"SyntaxError">>

\* -------------------------------------------------------------- buffers
\* deno_buf: a raw pointer and the bytes it points at (data_len = Len(data)).
deno_buf_empty == [null |-> TRUE, data |-> <<>>]

deno_buf_from(x) == [null |-> FALSE, data |-> x]

SeqsUpTo(n) == UNION {[1..k -> ByteVals] : k \in 0..n}

\* Every borrowed buffer up to MaxLen: empty(), and a slice of each length.
AllBufs == {deno_buf_empty} \cup {deno_buf_from(x) : x \in SeqsUpTo(MaxLen)}

\* The buffers the host responds with in the general specification.
HostBufs == {deno_buf_empty, deno_buf_from(<<>>), deno_buf_from(<<1, 2>>)}

\* A JS value that is either a Uint8Array (set) or undefined.
Undefined == [set |-> FALSE, bytes |-> <<>>]

Uint8Array(b) == [set |-> TRUE, bytes |-> b]

\* v8::ArrayBuffer::new(len): zero-filled backing store.
ArrayBuffer_new(len) == [i \in 1..len |-> 0]

\* std::ptr::copy_nonoverlapping(src, dst, count)
copy_nonoverlapping_short(src, dst, count) == [i \in 1..Len(dst) |-> IF i < count THEN src[i] ELSE dst[i]]

copy_nonoverlapping(src, dst, count) == [i \in 1..Len(dst) |-> IF i <= count THEN src[i] ELSE dst[i]]

deno_import_buf(buf) == IF buf.null THEN Uint8Array(SubSeq(ArrayBuffer_new(0), 1, 0)) ELSE Uint8Array(SubSeq(copy_nonoverlapping(buf.data, ArrayBuffer_new(Len(buf.data)), Len(buf.data)), 1, Len(buf.data)))

\* `op_id as i32` (two's complement reinterpretation of a u32)
as_i32(x) == IF x.hi >= 32768 THEN JsInt(-1, 65535 - x.hi + (IF x.lo = 0 THEN 1 ELSE 0), (65536 - x.lo) % 65536) ELSE JsInt(1, x.hi, x.lo)

\* ------------------------------------------------------------ exceptions
None == [some |-> FALSE, json |-> FALSE, message |-> <<>>]

Some(json, message) == [some |-> TRUE, json |-> json, message |-> message]

\* encode_exception_as_json: create_message gives "Uncaught <exception>".
encode_exception_as_json(exception) == Some(TRUE, <<"Uncaught">> \o exception)

RecvNotCalled == Some(FALSE, <<"Deno.core.recv has not been called.">>)

\* handle_exception: the value last_exception_ is assigned.  `terminating`
\* is isolate.is_execution_terminating() on entry.
handle_exception_clears(exception, terminating) == None

handle_exception(exception, terminating) == IF terminating THEN encode_exception_as_json(IF exception = NullExc THEN <<"Error: execution terminated">> ELSE exception) ELSE encode_exception_as_json(exception)

\* ---------------------------------------------------------------- state
VARIABLES
  fatal,               \* "none", or the panic that ended the process
  stack,               \* the native call stack: one frame per API call in progress
  user_data_,          \* DenoIsolate.user_data_
  current_args_,       \* DenoIsolate.current_args_: NullPtr or the frame of a send
  last_exception_,     \* DenoIsolate.last_exception_
  recv_,               \* DenoIsolate.recv_: NullPtr (empty handle) or a JS function
  resolve_cb_,         \* DenoIsolate.resolve_cb_: is a resolver installed
  mods_,               \* DenoIsolate.mods_: id -> ModuleInfo
  mods_by_name_,       \* DenoIsolate.mods_by_name_: name -> id
  context_,            \* DenoIsolate.context_ is non-empty
  locker_,             \* DenoIsolate.locker_ is Some
  snapshot_creator_,   \* DenoIsolate.snapshot_creator_ is Some
  has_snapshotted_,    \* DenoIsolate.has_snapshotted_
  module_status,       \* engine: id -> status of the compiled module
  terminate_requested, \* engine: TerminateExecution is pending
  recv_log,            \* the arguments of every call of the JS recv function
  resolve_log,         \* the calls of the host resolver the last step made
  host_bufs,           \* the buffers the host passes to respond in this run
  config,              \* the deno_config the host constructs the isolate from
  external_references_, \* engine: the native addresses registered with the isolate
  isolate_,            \* the DenoIsolate has been constructed
  shared_,             \* DenoIsolate.shared_: the descriptor copied from config.shared
  shared_ab_,          \* DenoIsolate.shared_ab_: NullPtr (empty handle) or the n-th
                       \* SharedArrayBuffer created
  returned,            \* what the API call of the last step returned to the host
  steps                \* the lock, scope, context and handle operations the API
                       \* call performed in the last step, in program order

isoVars == <<user_data_, current_args_, last_exception_, recv_, resolve_cb_, context_, locker_, snapshot_creator_, has_snapshotted_>>

modVars == <<mods_, mods_by_name_, module_status>>

vars == <<fatal, stack, user_data_, current_args_, last_exception_, recv_, resolve_cb_, mods_, mods_by_name_, context_, locker_, snapshot_creator_, has_snapshotted_, module_status, terminate_requested, recv_log, resolve_log, host_bufs, config, external_references_, isolate_, shared_, shared_ab_, returned, steps>>

EmptyMap == [x \in {} |-> x]

\* The values API calls return to the host.  NoValue stands for a call
\* that returns nothing (or for a step that is not a returning API call).
NoValue == [kind |-> "void", n |-> 0, s |-> ""]

\* deno_mod: a module id, 0 for failure.
deno_mod(id) == [kind |-> "deno_mod", n |-> id, s |-> ""]

\* usize: a length.
usize(n) == [kind |-> "usize", n |-> n, s |-> ""]

\* Option<String>: an import specifier, or nothing.
SomeString(s) == [kind |-> "Some", n |-> 0, s |-> s]

NoneString == [kind |-> "None", n |-> 0, s |-> ""]

\* deno_config: will_snapshot is a c_int, load_snapshot an Option.
deno_config(will_snapshot, load_snapshot) == [will_snapshot |-> will_snapshot, load_snapshot |-> load_snapshot]

Put(m, k, v) == [x \in DOMAIN m \cup {k} |-> IF x = k THEN v ELSE m[x]]

NoArgs == [argc |-> 0, op_id |-> JsInt(1, 0, 0), bytes |-> <<>>]


\* A frame of the native stack.  kind names the API function; data/prev are
\* its UserDataScope (data_, prev_data_); rv is the return value slot of a
\* send's FunctionCallbackInfo and sync counts the synchronous responds the
\* send has consumed; mod is the module a mod_evaluate runs; fn is the JS
\* function an asynchronous deno_respond calls; src is the script a
\* deno_execute runs.  A frame of kind "handle_exception" is a deno_execute
\* inside handle_exception: pc is the statement it is at, exc the exception
\* it reports and term what is_execution_terminating() returned on entry.
\* cb holds the arguments a send called recv_cb with.
NonePinnedBuf == [some |-> FALSE, data |-> <<>>]

SomePinnedBuf(data) == [some |-> TRUE, data |-> data]

recv_cb_args(user_data, op_id, control, zero_copy) == [user_data |-> user_data, op_id |-> op_id, control |-> control, zero_copy |-> zero_copy]

NoRecvCb == recv_cb_args(NullPtr, U32(0, 0), deno_buf_empty, NonePinnedBuf)

Frame(kind, data, prev) == [kind |-> kind, data |-> data, prev |-> prev, rv |-> Undefined, mod |-> 0, sync |-> 0, fn |-> NullPtr, src |-> "", pc |-> "", exc |-> NoExc, term |-> FALSE, cb |-> NoRecvCb]

ScopeKinds == {"deno_execute", "deno_respond", "deno_mod_evaluate", "deno_run_microtasks"}

Top == stack[Len(stack)]

Pop == SubSeq(stack, 1, Len(stack) - 1)

\* The host may call the API: at top level, or from inside recv_cb.
HostRunning == fatal = "none" /\ (IF stack = <<>> THEN TRUE ELSE Top.kind = "send")

HostAtTopLevel == fatal = "none" /\ stack = <<>>

\* JavaScript is running in the innermost frame.
JsRunning == fatal = "none" /\ stack # <<>> /\ Top.kind \in ScopeKinds

\* A panic: the process ends where it is.
Panic(what) ==
  /\ fatal' = what
  /\ UNCHANGED <<stack, isoVars, modVars, terminate_requested, recv_log, host_bufs, config, external_references_, isolate_, shared_, shared_ab_>> /\ returned' = NoValue /\ resolve_log' = <<>> /\ steps' = <<>>

\* How a run of JavaScript ends: normally, by an uncaught exception, or
\* by the termination the engine raises once TerminateExecution is pending.
JsResults == {[exc |-> NoExc, term |-> FALSE]} \cup {[exc |-> e, term |-> FALSE] : e \in JsExcs} \cup {[exc |-> NullExc, term |-> TRUE]}

\* EXTERNAL_REFERENCES: the native addresses the engine is told about, so
\* that a snapshot can name them.
EXTERNAL_REFERENCES == {"print", "recv", "send", "eval_context", "error_to_json", "shared_getter", "message_callback", "queue_microtask"}

\* initialize_context: the natives installed on Deno.core and on the
\* global object, keyed by the property they are installed as.
initialize_context == [print |-> "print", recv |-> "recv", send |-> "send", evalContext |-> "eval_context", errorToJSON |-> "error_to_json", shared |-> "shared_getter", queueMicrotask |-> "queue_microtask"]

\* deno_new: params.set_external_references(&EXTERNAL_REFERENCES)
set_external_references_none(refs) == {}

set_external_references(refs) == refs

\* deno_new_snapshotter: v8::SnapshotCreator::new(Some(&EXTERNAL_REFERENCES))
SnapshotCreator_new(refs) == refs

\* deno_new / deno_new_snapshotter: a fresh isolate.  `creator` is
\* config.will_snapshot; `bufs` are the buffers the host will respond with.
StartShared(bufs, creator, shared) ==
  /\ fatal = "none"
  /\ stack = <<>>
  /\ user_data_ = NullPtr
  /\ current_args_ = NullPtr
  /\ last_exception_ = None
  /\ recv_ = NullPtr
  /\ resolve_cb_ = FALSE
  /\ mods_ = EmptyMap
  /\ mods_by_name_ = EmptyMap
  /\ context_ = TRUE
  /\ locker_ = FALSE
  /\ snapshot_creator_ = creator
  /\ has_snapshotted_ = FALSE
  /\ module_status = EmptyMap
  /\ terminate_requested = FALSE
  /\ recv_log = <<>>
  /\ resolve_log = <<>>
  /\ host_bufs = bufs
  /\ config = deno_config(IF creator THEN 1 ELSE 0, FALSE)
  /\ external_references_ = (IF creator THEN SnapshotCreator_new(EXTERNAL_REFERENCES) ELSE set_external_references(EXTERNAL_REFERENCES))
  /\ isolate_ = TRUE
  /\ shared_ = shared
  /\ shared_ab_ = NullPtr
  /\ returned = NoValue
  /\ steps = <<>>

Start(bufs, creator) == StartShared(bufs, creator, deno_buf_empty)

Init == Start(HostBufs, FALSE)

\* ------------------------------------------------ entering the engine
\* deno_execute, the asynchronous deno_respond and deno_mod_evaluate: what
\* they do, in program order, before JavaScript runs.
execute_setup == <<"UserDataScope::new", "Locker::new", "HandleScope::new", "context_.get", "context.enter">>

respond_setup == <<"UserDataScope::new", "Locker::new", "HandleScope::new", "context_.get", "context.enter">>

mod_evaluate_setup == <<"UserDataScope::new", "Locker::new", "HandleScope::new", "context_.get", "context.enter">>

\* deno_respond, synchronous mode: a lock and a handle scope only to import
\* a buffer that is not empty.
respond_sync_setup(buf) == IF ~buf.null /\ Len(buf.data) > 0 THEN <<"Locker::new", "HandleScope::new">> ELSE <<>>

mod_instantiate_setup == <<"UserDataScope::new", "Locker::new", "HandleScope::new", "context_.get", "context.enter">>

\* register_module: compiles in a context it creates, not in context_.
register_module_setup == <<"Locker::new", "HandleScope::new", "Context::new", "context.enter">>

\* ------------------------------------------------------- UserDataScope
\* UserDataScope::new: assert!(deno.user_data_.is_null() || deno.user_data_ == data)
UserDataScope_new_unchecked(current, data) == TRUE

UserDataScope_new(current, data) == current = NullPtr \/ current = data

\* UserDataScope::new: deno.user_data_ = data
UserDataScope_enter_keep(current, data) == current

UserDataScope_enter(current, data) == data

\* Drop for UserDataScope: assert!(deno.user_data_ == self.data_)
UserDataScope_drop_assert(current, data_) == current = data_

\* Drop for UserDataScope: the value user_data_ is left with.
UserDataScope_drop_keep(prev_data_, data_) == data_

UserDataScope_drop(prev_data_, data_) == prev_data_

\* -------------------------------------------------------------- execute
\* v8::Script::compile returns None for a script that does not compile.
Compiles(js_source) == js_source # "bad.js"

\* script.run: "loop.js" is while(true){}, which ends by termination only.
LoopScript == "loop.js"

Terminates(js_source) == js_source # LoopScript

\* deno_execute up to script.run(): open the scope, enter the context,
\* compile (compile(..).unwrap() panics on a script that does not compile),
\* then the script runs.
deno_execute(user_data, js_source) ==
  /\ HostRunning
  /\ IF ~UserDataScope_new(user_data_, user_data)
       THEN Panic("UserDataScope::new: assertion failed")
     ELSE IF ~context_
       THEN Panic("deno_execute: assertion failed: !context_.is_empty()")
     ELSE IF ~Compiles(js_source)
       THEN Panic("execute: Script::compile(..).unwrap() on None")
     ELSE /\ Len(stack) < MaxDepth
          /\ stack' = Append(stack, [Frame("deno_execute", user_data, user_data_) EXCEPT !.src = js_source])
          /\ user_data_' = UserDataScope_enter(user_data_, user_data)
          /\ UNCHANGED <<fatal, current_args_, last_exception_, recv_, resolve_cb_, context_, locker_, snapshot_creator_, has_snapshotted_, modVars, terminate_requested, recv_log, host_bufs, config, external_references_, isolate_, shared_, shared_ab_>> /\ returned' = NoValue /\ resolve_log' = <<>> /\ steps' = execute_setup

\* DenoIsolate::execute after script.run() returned, and the rest of
\* deno_execute: an empty result is handed to handle_exception.
execute_return(r) ==
  /\ JsRunning
  /\ Top.kind = "deno_execute"
  /\ r.term => terminate_requested
  /\ Terminates(Top.src) \/ r.term
  /\ IF ~UserDataScope_drop_assert(user_data_, Top.data)
       THEN Panic("UserDataScope::drop: assertion failed")
       ELSE /\ stack' = Pop
            /\ user_data_' = UserDataScope_drop(Top.prev, Top.data)
            /\ last_exception_' = IF r.exc = NoExc THEN last_exception_ ELSE handle_exception(r.exc, r.term)
            /\ UNCHANGED <<fatal, current_args_, recv_, resolve_cb_, context_, locker_, snapshot_creator_, has_snapshotted_, modVars, terminate_requested, recv_log, host_bufs, config, external_references_, isolate_, shared_, shared_ab_>> /\ returned' = NoValue /\ resolve_log' = <<>> /\ steps' = <<"context.exit">>

\* DenoIsolate::execute, statement by statement, for the calls of
\* deno_terminate_execution another thread makes meanwhile.
\* script.run() returned None: execute calls handle_exception, which reads
\* isolate.is_execution_terminating().
execute_caught(r) ==
  /\ JsRunning
  /\ Top.kind = "deno_execute"
  /\ r.exc # NoExc
  /\ r.term => terminate_requested
  /\ Terminates(Top.src) \/ r.term
  /\ stack' = [stack EXCEPT ![Len(stack)].kind = "handle_exception", ![Len(stack)].pc = IF r.term THEN "cancel" ELSE "encode", ![Len(stack)].exc = r.exc, ![Len(stack)].term = r.term]
  /\ UNCHANGED <<fatal, isoVars, modVars, terminate_requested, recv_log, host_bufs, config, external_references_, isolate_, shared_, shared_ab_>> /\ returned' = NoValue /\ resolve_log' = <<>> /\ steps' = <<"is_execution_terminating">>

InHandler(pc) == fatal = "none" /\ stack # <<>> /\ Top.kind = "handle_exception" /\ Top.pc = pc

\* handle_exception: the exception that is encoded under termination.
materialize_keep(exception) == exception

materialize(exception) == IF exception = NullExc THEN <<"Error: execution terminated">> ELSE exception

\* handle_exception: isolate.cancel_terminate_execution(), then the
\* exception to report.
handle_exception_cancel ==
  /\ InHandler("cancel")
  /\ terminate_requested' = FALSE
  /\ stack' = [stack EXCEPT ![Len(stack)].pc = "encode", ![Len(stack)].exc = materialize(@)]
  /\ UNCHANGED <<fatal, isoVars, modVars, recv_log, host_bufs, config, external_references_, isolate_, shared_, shared_ab_>> /\ returned' = NoValue /\ resolve_log' = <<>> /\ steps' = <<"cancel_terminate_execution">>

\* encode_message_as_json: v8::json::stringify(..) returns an Option; with
\* a termination pending the engine may refuse to run and return None.
json_stringify(terminating) == IF terminating THEN {TRUE, FALSE} ELSE {TRUE}

\* The rest of deno_execute after handle_exception left last_exception_
\* as `last` and the termination flag as `requested`.
execute_leave(last, requested, ops) ==
  IF ~UserDataScope_drop_assert(user_data_, Top.data)
    THEN Panic("UserDataScope::drop: assertion failed")
    ELSE /\ stack' = Pop
         /\ user_data_' = UserDataScope_drop(Top.prev, Top.data)
         /\ last_exception_' = last
         /\ terminate_requested' = requested
         /\ UNCHANGED <<fatal, current_args_, recv_, resolve_cb_, context_, locker_, snapshot_creator_, has_snapshotted_, modVars, recv_log, host_bufs, config, external_references_, isolate_, shared_, shared_ab_>> /\ returned' = NoValue /\ resolve_log' = <<>> /\ steps' = ops

\* handle_exception: the (recursive) call that encodes the exception into
\* last_exception_; without termination execute returns after it.
handle_exception_encode(stringified) ==
  /\ InHandler("encode")
  /\ stringified \in json_stringify(terminate_requested)
  /\ IF ~stringified
       THEN Panic("encode_message_as_json: json::stringify(..).unwrap() on None")
     ELSE IF Top.term
       THEN /\ last_exception_' = encode_exception_as_json(Top.exc)
            /\ stack' = [stack EXCEPT ![Len(stack)].pc = "reraise"]
            /\ UNCHANGED <<fatal, user_data_, current_args_, recv_, resolve_cb_, context_, locker_, snapshot_creator_, has_snapshotted_, modVars, terminate_requested, recv_log, host_bufs, config, external_references_, isolate_, shared_, shared_ab_>> /\ returned' = NoValue /\ resolve_log' = <<>> /\ steps' = <<"encode_exception_as_json">>
     ELSE execute_leave(encode_exception_as_json(Top.exc), terminate_requested, <<"encode_exception_as_json", "context.exit">>)

\* handle_exception: context.get_isolate().terminate_execution(), and
\* execute returns.
handle_exception_reraise ==
  /\ InHandler("reraise")
  /\ execute_leave(last_exception_, TRUE, <<"terminate_execution", "context.exit">>)

\* ----------------------------------------------------------- send / recv
\* send: assert!(deno_isolate.current_args_.is_null())
send_assert_removed(current) == TRUE

send_assert(current) == current = NullPtr

\* send after recv_cb returned: the value current_args_ is left with.
send_clear_skipped(current) == current

send_clear(current) == IF current = NullPtr THEN NullPtr ELSE NullPtr

\* Deno.core.send(opId, control, zeroCopy) up to the call of recv_cb.
send(op_id) ==
  /\ JsRunning
  /\ IF ~context_
       THEN Panic("send: assertion failed: !context_.is_empty()")
     ELSE IF ~send_assert(current_args_)
       THEN Panic("send: assertion failed: current_args_.is_null()")
     ELSE /\ Len(stack) < MaxDepth
          /\ stack' = Append(stack, Frame("send", NullPtr, NullPtr))
          /\ current_args_' = Len(stack) + 1
          /\ UNCHANGED <<fatal, user_data_, last_exception_, recv_, resolve_cb_, context_, locker_, snapshot_creator_, has_snapshotted_, modVars, terminate_requested, recv_log, host_bufs, config, external_references_, isolate_, shared_, shared_ab_>> /\ returned' = NoValue /\ resolve_log' = <<>> /\ steps' = <<>>

\* The arguments JavaScript passes to Deno.core.send: a Uint32, an
\* ArrayBufferView over some bytes, or a value that is neither.
JsUint32(op_id) == [type |-> "Uint32", op_id |-> op_id, bytes |-> <<>>]

JsArrayBufferView(bytes) == [type |-> "ArrayBufferView", op_id |-> U32(0, 0), bytes |-> bytes]

JsOther == [type |-> "Other", op_id |-> U32(0, 0), bytes |-> <<>>]

\* backing_store.data().add(view.byte_offset()) is null: only the store of
\* a buffer without bytes may have no address, and whether it has one is
\* the engine's choice (`store_null`).
view_ptr_is_null(view, store_null) == Len(view.bytes) = 0 /\ store_null

\* send: the control buffer handed to recv_cb.
send_control(control_arg, store_null) == IF control_arg.type = "ArrayBufferView" THEN [null |-> view_ptr_is_null(control_arg, store_null), data |-> control_arg.bytes] ELSE deno_buf_empty

\* PinnedBuf::new: NonNull::new(view_ptr).unwrap()
PinnedBuf_new_panics(view, store_null) == view_ptr_is_null(view, store_null)

\* send: try_from(info.get_argument(2)).map(PinnedBuf::new).ok()
send_zero_copy(zero_copy_arg) == IF zero_copy_arg.type = "ArrayBufferView" THEN SomePinnedBuf(zero_copy_arg.bytes) ELSE NonePinnedBuf

\* Deno.core.send(opId, control, zeroCopy) with its arguments, up to the
\* call of recv_cb.
send_call(op_arg, control_arg, zero_copy_arg, store_null) ==
  /\ JsRunning
  /\ IF ~context_
       THEN Panic("send: assertion failed: !context_.is_empty()")
     ELSE IF op_arg.type # "Uint32"
       THEN Panic("send: Uint32::try_from(..).unwrap() on Err")
     ELSE IF zero_copy_arg.type = "ArrayBufferView" /\ PinnedBuf_new_panics(zero_copy_arg, store_null)
       THEN Panic("PinnedBuf::new: NonNull::new(view_ptr).unwrap() on None")
     ELSE IF ~send_assert(current_args_)
       THEN Panic("send: assertion failed: current_args_.is_null()")
     ELSE /\ Len(stack) < MaxDepth
          /\ stack' = Append(stack, [Frame("send", NullPtr, NullPtr) EXCEPT !.cb = recv_cb_args(user_data_, op_arg.op_id, send_control(control_arg, store_null), send_zero_copy(zero_copy_arg))])
          /\ current_args_' = Len(stack) + 1
          /\ UNCHANGED <<fatal, user_data_, last_exception_, recv_, resolve_cb_, context_, locker_, snapshot_creator_, has_snapshotted_, modVars, terminate_requested, recv_log, host_bufs, config, external_references_, isolate_, shared_, shared_ab_>> /\ returned' = NoValue /\ resolve_log' = <<>> /\ steps' = <<"HandleScope::new", "recv_cb">>

\* recv_cb returns to send, which clears current_args_ and returns to JS.
send_return ==
  /\ fatal = "none"
  /\ stack # <<>>
  /\ Top.kind = "send"
  /\ stack' = Pop
  /\ current_args_' = send_clear(current_args_)
  /\ UNCHANGED <<fatal, user_data_, last_exception_, recv_, resolve_cb_, context_, locker_, snapshot_creator_, has_snapshotted_, modVars, terminate_requested, recv_log, host_bufs, config, external_references_, isolate_, shared_, shared_ab_>> /\ returned' = NoValue /\ resolve_log' = <<>> /\ steps' = <<>>

\* recv: the handle recv_ holds afterwards ("Deno.core.recv already called."
\* is thrown, and recv_ kept, when it is not empty).
recv_set_overwrite(current, fn) == fn

recv_set(current, fn) == IF current # NullPtr THEN current ELSE fn

\* recv: what it does, in program order.
recv_steps(current) == <<"Locker::new", "HandleScope::new">> \o (IF current # NullPtr THEN <<"throw_exception: Deno.core.recv already called.">> ELSE <<"recv_.set">>)

\* Deno.core.recv(fn)
recv(fn) ==
  /\ JsRunning
  /\ recv_' = recv_set(recv_, fn)
  /\ UNCHANGED <<fatal, stack, user_data_, current_args_, last_exception_, resolve_cb_, context_, locker_, snapshot_creator_, has_snapshotted_, modVars, terminate_requested, recv_log, host_bufs, config, external_references_, isolate_, shared_, shared_ab_>> /\ returned' = NoValue /\ resolve_log' = <<>> /\ steps' = recv_steps(recv_)

\* ------------------------------------------------------ Deno.core.shared
\* What the getter hands to JS: undefined, or the n-th SharedArrayBuffer.
JsUndefined == [kind |-> "undefined", n |-> 0, s |-> ""]

SharedArrayBuffer(n) == [kind |-> "SharedArrayBuffer", n |-> n, s |-> ""]

\* shared_getter: does it return before creating or fetching anything.
shared_getter_returns_early(shared) == shared.null

\* shared_getter: the handle shared_ab_ holds afterwards; a new buffer is
\* created only while the handle is empty.
shared_getter_set_always(current) == IF current = NullPtr + 1 THEN current + 1 ELSE NullPtr + 1

shared_getter_set(current) == IF current = NullPtr THEN current + 1 ELSE current

shared_getter_steps(current) == <<"EscapableHandleScope::new">> \o (IF current = NullPtr THEN <<"SharedArrayBuffer::new", "shared_ab_.set">> ELSE <<>>) \o <<"shared_ab_.get">>

\* JavaScript reads Deno.core.shared.
shared_getter ==
  /\ JsRunning
  /\ IF shared_getter_returns_early(shared_)
       THEN /\ returned' = JsUndefined
            /\ resolve_log' = <<>> /\ steps' = <<"EscapableHandleScope::new">>
            /\ UNCHANGED <<fatal, stack, isoVars, modVars, terminate_requested, recv_log, host_bufs, config, external_references_, isolate_, shared_, shared_ab_>>
       ELSE /\ shared_ab_' = shared_getter_set(shared_ab_)
            /\ returned' = SharedArrayBuffer(shared_ab_')
            /\ resolve_log' = <<>> /\ steps' = shared_getter_steps(shared_ab_)
            /\ UNCHANGED <<fatal, stack, isoVars, modVars, terminate_requested, recv_log, host_bufs, config, external_references_, isolate_, shared_>>

\* -------------------------------------------------------------- respond
\* deno_respond, synchronous mode: the return value slot of the send.
respond_return_value_always(rv, buf) == deno_import_buf(buf)

respond_return_value(rv, buf) == IF ~buf.null /\ Len(buf.data) > 0 THEN deno_import_buf(buf) ELSE rv

\* deno_respond, synchronous mode: the value current_args_ is left with.
respond_sync_clear_keep(current) == current

respond_sync_clear(current) == NullPtr

\* deno_respond, synchronous mode: the FunctionCallbackInfo whose return
\* value is set, transmute(deno_isolate.current_args_).
respond_sync_info_outermost(current) == CHOOSE i \in 1..Len(stack) : stack[i].kind = "send" /\ \A j \in 1..(i - 1) : stack[j].kind # "send"

respond_sync_info(current) == current

\* deno_respond, synchronous mode: is the call a synchronous response.
respond_is_sync_never(current) == FALSE

respond_is_sync(current) == current # NullPtr

\* deno_respond, asynchronous mode: the arguments recv is called with.
recv_args(op_id, buf) == IF ~buf.null THEN [argc |-> 2, op_id |-> as_i32(op_id), bytes |-> deno_import_buf(buf).bytes] ELSE NoArgs

\* deno_respond, asynchronous mode: the calls of recv it makes.
respond_calls_skip_null(op_id, buf) == IF buf.null THEN <<>> ELSE <<recv_args(op_id, buf)>>

respond_calls(op_id, buf) == <<recv_args(op_id, buf)>>

\* deno_respond, recv_ empty: the value last_exception_ is assigned.
respond_no_recv_encoded(last) == encode_exception_as_json(<<"Deno.core.recv has not been called.">>)

respond_no_recv(last) == RecvNotCalled

deno_respond(user_data, op_id, buf) ==
  /\ HostRunning
  /\ buf \in host_bufs
  /\ IF respond_is_sync(current_args_)
       THEN IF ~buf.null /\ Len(buf.data) > 0 /\ ~context_
              THEN Panic("deno_respond: assertion failed: !context_.is_empty()")
              ELSE /\ stack' = [stack EXCEPT ![respond_sync_info(current_args_)].rv = respond_return_value(@, buf), ![respond_sync_info(current_args_)].sync = @ + 1]
                   /\ current_args_' = respond_sync_clear(current_args_)
                   /\ UNCHANGED <<fatal, user_data_, last_exception_, recv_, resolve_cb_, context_, locker_, snapshot_creator_, has_snapshotted_, modVars, terminate_requested, recv_log, host_bufs, config, external_references_, isolate_, shared_, shared_ab_>> /\ returned' = NoValue /\ resolve_log' = <<>> /\ steps' = respond_sync_setup(buf)
     ELSE IF ~UserDataScope_new(user_data_, user_data)
       THEN Panic("UserDataScope::new: assertion failed")
     ELSE IF ~context_
       THEN Panic("deno_respond: assertion failed: !context_.is_empty()")
     ELSE IF recv_ = NullPtr
       THEN /\ last_exception_' = respond_no_recv(last_exception_)
            /\ user_data_' = UserDataScope_drop(user_data_, user_data)
            /\ UNCHANGED <<fatal, stack, current_args_, recv_, resolve_cb_, context_, locker_, snapshot_creator_, has_snapshotted_, modVars, terminate_requested, recv_log, host_bufs, config, external_references_, isolate_, shared_, shared_ab_>> /\ returned' = NoValue /\ resolve_log' = <<>> /\ steps' = respond_setup
     ELSE /\ Len(stack) < MaxDepth
          /\ Len(recv_log) < MaxRecv
          /\ stack' = Append(stack, [Frame("deno_respond", user_data, user_data_) EXCEPT !.fn = recv_])
          /\ user_data_' = UserDataScope_enter(user_data_, user_data)
          /\ recv_log' = recv_log \o respond_calls(op_id, buf)
          /\ UNCHANGED <<fatal, current_args_, last_exception_, recv_, resolve_cb_, context_, locker_, snapshot_creator_, has_snapshotted_, modVars, terminate_requested, host_bufs, config, external_references_, isolate_, shared_, shared_ab_>> /\ returned' = NoValue /\ resolve_log' = <<>> /\ steps' = respond_setup

\* deno_respond after the JS recv function returned.
respond_return(r) ==
  /\ JsRunning
  /\ Top.kind = "deno_respond"
  /\ r.term => terminate_requested
  /\ IF ~UserDataScope_drop_assert(user_data_, Top.data)
       THEN Panic("UserDataScope::drop: assertion failed")
       ELSE /\ stack' = Pop
            /\ user_data_' = UserDataScope_drop(Top.prev, Top.data)
            /\ last_exception_' = IF r.exc = NoExc THEN last_exception_ ELSE handle_exception(r.exc, r.term)
            /\ UNCHANGED <<fatal, current_args_, recv_, resolve_cb_, context_, locker_, snapshot_creator_, has_snapshotted_, modVars, terminate_requested, recv_log, host_bufs, config, external_references_, isolate_, shared_, shared_ab_>> /\ returned' = NoValue /\ resolve_log' = <<>> /\ steps' = <<"context.exit">>

\* ------------------------------------------------- termination, microtasks
deno_terminate_execution ==
  /\ fatal = "none"
  /\ ~terminate_requested
  /\ terminate_requested' = TRUE
  /\ UNCHANGED <<fatal, stack, isoVars, modVars, recv_log, host_bufs, config, external_references_, isolate_, shared_, shared_ab_>> /\ returned' = NoValue /\ resolve_log' = <<>> /\ steps' = <<>>

deno_run_microtasks(user_data) ==
  /\ HostAtTopLevel
  /\ IF ~UserDataScope_new(user_data_, user_data)
       THEN Panic("UserDataScope::new: assertion failed")
     ELSE /\ stack' = Append(stack, Frame("deno_run_microtasks", user_data, user_data_))
          /\ user_data_' = UserDataScope_enter(user_data_, user_data)
          /\ UNCHANGED <<fatal, current_args_, last_exception_, recv_, resolve_cb_, context_, locker_, snapshot_creator_, has_snapshotted_, modVars, terminate_requested, recv_log, host_bufs, config, external_references_, isolate_, shared_, shared_ab_>> /\ returned' = NoValue /\ resolve_log' = <<>> /\ steps' = <<"UserDataScope::new", "Locker::new", "isolate.enter">>

run_microtasks_return ==
  /\ JsRunning
  /\ Top.kind = "deno_run_microtasks"
  /\ IF ~UserDataScope_drop_assert(user_data_, Top.data)
       THEN Panic("UserDataScope::drop: assertion failed")
       ELSE /\ stack' = Pop
            /\ user_data_' = UserDataScope_drop(Top.prev, Top.data)
            /\ UNCHANGED <<fatal, current_args_, last_exception_, recv_, resolve_cb_, context_, locker_, snapshot_creator_, has_snapshotted_, modVars, terminate_requested, recv_log, host_bufs, config, external_references_, isolate_, shared_, shared_ab_>> /\ returned' = NoValue /\ resolve_log' = <<>> /\ steps' = <<"isolate.exit">>

\* -------------------------------------------------------------- modules
Min(S) == CHOOSE x \in S : \A y \in S : x <= y

Range(f) == {f[x] : x \in DOMAIN f}

\* What the engine reports of a source: does it compile, what it imports.
ModuleCompiles(source) == source # "bad"

ModuleRequests(source) == IF source = "imp" THEN <<"./x", "./y">> ELSE IF source = "nul" THEN <<NulSpecifier>> ELSE <<>>

ModuleStatus(s, exc, links) == [s |-> s, exc |-> exc, links |-> links]

\* DenoIsolate::get_module_info(id) is Some
get_module_info(id) == id # 0 /\ id \in DOMAIN mods_

\* register_module: the value last_exception_ is assigned on a compile error.
register_module_error_ignored(last) == last

register_module_error(last) == handle_exception(SyntaxError, FALSE)

RECURSIVE Reverse(_)
Reverse(s) == IF s = <<>> THEN <<>> ELSE Append(Reverse(Tail(s)), Head(s))

\* register_module: the requests of the compiled module, pushed one by one
\* in the order module.get_module_request(i) reports them.
register_module_import_specifiers_reversed(source) == Reverse(ModuleRequests(source))

register_module_import_specifiers(source) == ModuleRequests(source)

\* register_module: self.mods_.insert(id, ModuleInfo {..})
mods_insert_by_name(mods, id, info) == LET kept == {x \in DOMAIN mods : mods[x].name # info.name} IN [x \in kept \cup {id} |-> IF x = id THEN info ELSE mods[x]]

mods_insert(mods, id, info) == Put(mods, id, info)

\* register_module: self.mods_by_name_.insert(name.to_string(), id)
mods_by_name_insert_first(by_name, name, id) == IF name \in DOMAIN by_name THEN by_name ELSE Put(by_name, name, id)

mods_by_name_insert(by_name, name, id) == Put(by_name, name, id)

\* DenoIsolate::register_module, where the engine reports `id` as the
\* identity hash of the compiled module.
register_module(main, name, source, id) ==
  /\ HostAtTopLevel
  /\ IF ~ModuleCompiles(source)
       THEN /\ last_exception_' = register_module_error(last_exception_)
            /\ UNCHANGED <<fatal, stack, user_data_, current_args_, recv_, resolve_cb_, context_, locker_, snapshot_creator_, has_snapshotted_, modVars, terminate_requested, recv_log, host_bufs, config, external_references_, isolate_, shared_, shared_ab_>>
            /\ returned' = deno_mod(0)
            /\ resolve_log' = <<>> /\ steps' = register_module_setup
       ELSE /\ mods_' = mods_insert(mods_, id, [main |-> main, name |-> name, import_specifiers |-> register_module_import_specifiers(source)])
            /\ mods_by_name_' = mods_by_name_insert(mods_by_name_, name, id)
            /\ module_status' = Put(module_status, id, ModuleStatus("uninstantiated", NoExc, <<>>))
            /\ UNCHANGED <<fatal, stack, isoVars, terminate_requested, recv_log, host_bufs, config, external_references_, isolate_, shared_, shared_ab_>>
            /\ returned' = deno_mod(id)
            /\ resolve_log' = <<>> /\ steps' = register_module_setup \o <<"context.exit">>

\* deno_mod_new: the identity hashes of the modules of one run are taken
\* to be distinct, except where a specification says otherwise.
deno_mod_new(main, name, source) ==
  IF ~ModuleCompiles(source)
    THEN register_module(main, name, source, 0)
    ELSE \E id \in (1..MaxMods) \ DOMAIN mods_ : register_module(main, name, source, id)

\* deno_mod_imports_len: get_module_info(id).unwrap() panics on an id that
\* is not registered.
deno_mod_imports_len(id) ==
  /\ HostRunning
  /\ IF ~get_module_info(id)
       THEN Panic("deno_mod_imports_len: get_module_info(id).unwrap() on None")
       ELSE /\ returned' = usize(Len(mods_[id].import_specifiers))
            /\ resolve_log' = <<>> /\ steps' = <<>>
            /\ UNCHANGED <<fatal, stack, isoVars, modVars, terminate_requested, recv_log, host_bufs, config, external_references_, isolate_, shared_, shared_ab_>>

\* deno_mod_imports_get: info.import_specifiers.get(index), zero-based.
imports_get_reversed(specifiers, index) == IF index < Len(specifiers) THEN SomeString(specifiers[Len(specifiers) - index]) ELSE NoneString

imports_get(specifiers, index) == IF index < Len(specifiers) THEN SomeString(specifiers[index + 1]) ELSE NoneString

deno_mod_imports_get(id, index) ==
  /\ HostRunning
  /\ returned' = IF get_module_info(id) THEN imports_get(mods_[id].import_specifiers, index) ELSE NoneString
  /\ resolve_log' = <<>> /\ steps' = <<>>
  /\ UNCHANGED <<fatal, stack, isoVars, modVars, terminate_requested, recv_log, host_bufs, config, external_references_, isolate_, shared_, shared_ab_>>

\* CString::new(s) is Ok: s has no NUL byte in it.
CString_new(s) == s # NulSpecifier

\* One call of the host resolver: resolve_cb(user_data, specifier, referrer).
ResolveCall(user_data, specifier, referrer_id) == [user_data |-> user_data, specifier |-> specifier, referrer |-> referrer_id]

\* resolve_callback: the host resolver is called with the request that
\* equals the specifier.
resolve_callback_request(specs, hit) == specs[Min(hit)]

\* resolve_callback(context, specifier, referrer) with the host resolver
\* `res` while user_data_ is `user_data`: the module it returns or the
\* exception it throws, the calls of the host resolver it makes, and
\* whether it panics in CString::new(..).unwrap().
resolve_callback(user_data, referrer_id, specifier, res) ==
  LET specs == mods_[referrer_id].import_specifiers
      hit == {i \in 1..Len(specs) : specs[i] = specifier}
  IN IF hit = {} THEN [ok |-> FALSE, id |-> 0, exc |-> NoExc, calls |-> <<>>, panic |-> FALSE]
     ELSE LET req_str == resolve_callback_request(specs, hit)
          IN IF ~CString_new(req_str)
               THEN [ok |-> FALSE, id |-> 0, exc |-> NoExc, calls |-> <<>>, panic |-> TRUE]
               ELSE LET id == res[req_str]
                        calls == <<ResolveCall(user_data, req_str, referrer_id)>>
                    IN IF ~get_module_info(id)
                         THEN [ok |-> FALSE, id |-> 0, exc |-> <<"Cannot resolve module", req_str, mods_[referrer_id].name>>, calls |-> calls, panic |-> FALSE]
                         ELSE [ok |-> TRUE, id |-> id, exc |-> NoExc, calls |-> calls, panic |-> FALSE]

\* module.instantiate_module(context, resolve_callback): the engine resolves
\* the requests of every module of the graph that is not yet instantiated,
\* and stops at the first request that fails.
\* The calls of the host resolver made for the first n requests of a module.
RECURSIVE resolve_calls(_, _)
resolve_calls(rs, n) == IF n = 0 THEN <<>> ELSE resolve_calls(rs, n - 1) \o rs[n].calls

RECURSIVE instantiate_module(_, _, _, _)
instantiate_module(user_data, todo, visited, res) ==
  IF todo = <<>> THEN [ok |-> TRUE, visited |-> visited, exc |-> NoExc, panic |-> FALSE, calls |-> <<>>]
  ELSE LET m == Head(todo)
       IN IF m \in visited \/ module_status[m].s # "uninstantiated"
            THEN instantiate_module(user_data, Tail(todo), visited, res)
            ELSE LET specs == mods_[m].import_specifiers
                     rs == [i \in 1..Len(specs) |-> resolve_callback(user_data, m, specs[i], res)]
                     bad == {i \in 1..Len(specs) : ~rs[i].ok}
                 IN IF bad # {}
                      THEN [ok |-> FALSE, visited |-> visited, exc |-> rs[Min(bad)].exc, panic |-> rs[Min(bad)].panic, calls |-> resolve_calls(rs, Min(bad))]
                      ELSE [instantiate_module(user_data, [i \in 1..Len(specs) |-> rs[i].id] \o Tail(todo), visited \cup {m}, res) EXCEPT !.calls = resolve_calls(rs, Len(specs)) \o @]

\* deno_mod_instantiate: the resolver slot on return.
mod_instantiate_resolve_cb(early_return) == early_return

deno_mod_instantiate(user_data, id, res) ==
  /\ HostAtTopLevel
  /\ IF ~UserDataScope_new(user_data_, user_data)
       THEN Panic("UserDataScope::new: assertion failed")
     ELSE IF ~context_
       THEN Panic("deno_mod_instantiate: assertion failed: !context_.is_empty()")
     ELSE IF resolve_cb_
       THEN Panic("deno_mod_instantiate: assertion failed: resolve_cb_.is_none()")
     ELSE IF ~get_module_info(id) \/ module_status[id].s = "errored"
       THEN /\ resolve_cb_' = mod_instantiate_resolve_cb(TRUE)
            /\ user_data_' = UserDataScope_drop(user_data_, user_data)
            /\ UNCHANGED <<fatal, stack, current_args_, last_exception_, recv_, context_, locker_, snapshot_creator_, has_snapshotted_, modVars, terminate_requested, recv_log, host_bufs, config, external_references_, isolate_, shared_, shared_ab_>> /\ returned' = NoValue /\ resolve_log' = <<>> /\ steps' = mod_instantiate_setup
     ELSE LET r == instantiate_module(UserDataScope_enter(user_data_, user_data), <<id>>, {}, res)
          IN IF r.panic
               THEN Panic("resolve_callback: CString::new(..).unwrap() on Err")
               ELSE /\ resolve_cb_' = mod_instantiate_resolve_cb(FALSE)
                    /\ user_data_' = UserDataScope_drop(user_data_, user_data)
                    /\ module_status' = IF r.ok
                                          THEN [m \in DOMAIN module_status |-> IF m \in r.visited THEN ModuleStatus("instantiated", NoExc, [i \in 1..Len(mods_[m].import_specifiers) |-> res[mods_[m].import_specifiers[i]]]) ELSE module_status[m]]
                                          ELSE module_status
                    /\ last_exception_' = IF r.ok THEN last_exception_ ELSE handle_exception(r.exc, FALSE)
                    /\ UNCHANGED <<fatal, stack, current_args_, recv_, context_, locker_, snapshot_creator_, has_snapshotted_, mods_, mods_by_name_, terminate_requested, recv_log, host_bufs, config, external_references_, isolate_, shared_, shared_ab_>> /\ returned' = NoValue /\ resolve_log' = r.calls /\ steps' = mod_instantiate_setup \o <<"context.exit">>

\* The modules the engine evaluates with module m: m and what it links to.
RECURSIVE Graph(_, _)
Graph(front, seen) ==
  IF front \subseteq seen THEN seen
  ELSE Graph(UNION {Range(module_status[m].links) : m \in front}, seen \cup front)

\* deno_mod_evaluate, status Evaluated: the value last_exception_ is assigned.
mod_evaluate_evaluated_keep(last) == last

mod_evaluate_evaluated(last) == None

\* deno_mod_evaluate up to module.evaluate(), and all of it for a module
\* that is not Instantiated.
deno_mod_evaluate(user_data, id) ==
  /\ HostAtTopLevel
  /\ IF ~UserDataScope_new(user_data_, user_data)
       THEN Panic("UserDataScope::new: assertion failed")
     ELSE IF ~context_
       THEN Panic("deno_mod_evaluate: assertion failed: !context_.is_empty()")
     ELSE IF ~get_module_info(id)
       THEN Panic("deno_mod_evaluate: ModuleInfo not found")
     ELSE LET status == module_status[id]
              errored == {m \in Graph({id}, {}) : module_status[m].s = "errored"}
          IN IF status.s = "instantiated" /\ errored = {}
               THEN /\ stack' = Append(stack, [Frame("deno_mod_evaluate", user_data, user_data_) EXCEPT !.mod = id])
                    /\ user_data_' = UserDataScope_enter(user_data_, user_data)
                    /\ UNCHANGED <<fatal, current_args_, last_exception_, recv_, resolve_cb_, context_, locker_, snapshot_creator_, has_snapshotted_, modVars, terminate_requested, recv_log, host_bufs, config, external_references_, isolate_, shared_, shared_ab_>> /\ returned' = NoValue /\ resolve_log' = <<>> /\ steps' = mod_evaluate_setup
             ELSE IF status.s = "instantiated"
               THEN LET exc == module_status[Min(errored)].exc
                    IN /\ module_status' = [module_status EXCEPT ![id] = ModuleStatus("errored", exc, @.links)]
                       /\ last_exception_' = handle_exception(exc, FALSE)
                       /\ user_data_' = UserDataScope_drop(user_data_, user_data)
                       /\ UNCHANGED <<fatal, stack, current_args_, recv_, resolve_cb_, context_, locker_, snapshot_creator_, has_snapshotted_, mods_, mods_by_name_, terminate_requested, recv_log, host_bufs, config, external_references_, isolate_, shared_, shared_ab_>> /\ returned' = NoValue /\ resolve_log' = <<>> /\ steps' = mod_evaluate_setup \o <<"context.exit">>
             ELSE IF status.s = "evaluated"
               THEN /\ last_exception_' = mod_evaluate_evaluated(last_exception_)
                    /\ user_data_' = UserDataScope_drop(user_data_, user_data)
                    /\ UNCHANGED <<fatal, stack, current_args_, recv_, resolve_cb_, context_, locker_, snapshot_creator_, has_snapshotted_, modVars, terminate_requested, recv_log, host_bufs, config, external_references_, isolate_, shared_, shared_ab_>> /\ returned' = NoValue /\ resolve_log' = <<>> /\ steps' = mod_evaluate_setup \o <<"context.exit">>
             ELSE IF status.s = "errored"
               THEN /\ last_exception_' = handle_exception(status.exc, FALSE)
                    /\ user_data_' = UserDataScope_drop(user_data_, user_data)
                    /\ UNCHANGED <<fatal, stack, current_args_, recv_, resolve_cb_, context_, locker_, snapshot_creator_, has_snapshotted_, modVars, terminate_requested, recv_log, host_bufs, config, external_references_, isolate_, shared_, shared_ab_>> /\ returned' = NoValue /\ resolve_log' = <<>> /\ steps' = mod_evaluate_setup \o <<"context.exit">>
             ELSE Panic("deno_mod_evaluate: Unexpected module status")

\* deno_mod_evaluate after module.evaluate() returned.
mod_evaluate_return(r) ==
  /\ JsRunning
  /\ Top.kind = "deno_mod_evaluate"
  /\ r.term => terminate_requested
  /\ IF ~UserDataScope_drop_assert(user_data_, Top.data)
       THEN Panic("UserDataScope::drop: assertion failed")
       ELSE /\ stack' = Pop
            /\ user_data_' = UserDataScope_drop(Top.prev, Top.data)
            /\ module_status' = IF r.exc = NoExc
                               THEN [m \in DOMAIN module_status |-> IF m \in Graph({Top.mod}, {}) /\ module_status[m].s = "instantiated" THEN ModuleStatus("evaluated", NoExc, module_status[m].links) ELSE module_status[m]]
                               ELSE [module_status EXCEPT ![Top.mod] = ModuleStatus("errored", r.exc, @.links)]
            /\ last_exception_' = IF r.exc = NoExc THEN mod_evaluate_evaluated(last_exception_) ELSE handle_exception(r.exc, r.term)
            /\ UNCHANGED <<fatal, current_args_, recv_, resolve_cb_, context_, locker_, snapshot_creator_, has_snapshotted_, mods_, mods_by_name_, terminate_requested, recv_log, host_bufs, config, external_references_, isolate_, shared_, shared_ab_>> /\ returned' = NoValue /\ resolve_log' = <<>> /\ steps' = <<"context.exit">>

\* ------------------------------------------------------------ lifecycle
\* The host holds a deno_config and no isolate yet: the fields are what
\* DenoIsolate::new will give them.
NotCreated(bufs, cfg) ==
  /\ fatal = "none"
  /\ stack = <<>>
  /\ user_data_ = NullPtr
  /\ current_args_ = NullPtr
  /\ last_exception_ = None
  /\ recv_ = NullPtr
  /\ resolve_cb_ = FALSE
  /\ mods_ = EmptyMap
  /\ mods_by_name_ = EmptyMap
  /\ context_ = FALSE
  /\ locker_ = FALSE
  /\ snapshot_creator_ = FALSE
  /\ has_snapshotted_ = FALSE
  /\ module_status = EmptyMap
  /\ terminate_requested = FALSE
  /\ recv_log = <<>>
  /\ resolve_log = <<>>
  /\ host_bufs = bufs
  /\ config = cfg
  /\ external_references_ = {}
  /\ isolate_ = FALSE
  /\ shared_ = deno_buf_empty
  /\ shared_ab_ = NullPtr
  /\ returned = NoValue
  /\ steps = <<>>

\* *mut isolate: the pointer deno_new and deno_new_snapshotter return.
isolate_ptr == [kind |-> "isolate", n |-> 1, s |-> ""]

\* deno_new_snapshotter: assert!(config.load_snapshot.is_none())
new_snapshotter_load_assert_removed(load_snapshot) == TRUE

new_snapshotter_load_assert(load_snapshot) == ~load_snapshot

\* deno_new: initialize_context(scope, context) runs if
\* config.load_snapshot.is_none().
new_initialize_context_always(load_snapshot_is_null) == <<"initialize_context">>

new_initialize_context(load_snapshot_is_null) == IF load_snapshot_is_null THEN <<"initialize_context">> ELSE <<>>

\* deno_new_snapshotter(config)
deno_new_snapshotter ==
  /\ fatal = "none"
  /\ ~isolate_
  /\ IF config.will_snapshot = 0
       THEN Panic("deno_new_snapshotter: assertion failed: will_snapshot != 0")
     ELSE IF ~new_snapshotter_load_assert(config.load_snapshot)
       THEN Panic("deno_new_snapshotter: assertion failed: load_snapshot.is_none()")
     ELSE /\ isolate_' = TRUE
          /\ context_' = TRUE
          /\ snapshot_creator_' = TRUE
          /\ returned' = isolate_ptr
          /\ external_references_' = SnapshotCreator_new(EXTERNAL_REFERENCES)
          /\ resolve_log' = <<>> /\ steps' = <<"SnapshotCreator::new", "Locker::new", "HandleScope::new", "Context::new", "context_.set", "set_default_context", "initialize_context">>
          /\ UNCHANGED <<fatal, stack, user_data_, current_args_, last_exception_, recv_, resolve_cb_, locker_, has_snapshotted_, modVars, terminate_requested, recv_log, host_bufs, config, shared_, shared_ab_>>

\* deno_new(config): a config with will_snapshot set goes to
\* deno_new_snapshotter.
deno_new ==
  /\ fatal = "none"
  /\ ~isolate_
  /\ IF config.will_snapshot # 0
       THEN deno_new_snapshotter
       ELSE /\ isolate_' = TRUE
            /\ context_' = TRUE
            /\ returned' = isolate_ptr
            /\ external_references_' = set_external_references(EXTERNAL_REFERENCES)
            /\ resolve_log' = <<>> /\ steps' = <<"Isolate::new", "Locker::new", "HandleScope::new", "Context::new">> \o new_initialize_context(~config.load_snapshot) \o <<"context_.set">>
            /\ UNCHANGED <<fatal, stack, user_data_, current_args_, last_exception_, recv_, resolve_cb_, locker_, snapshot_creator_, has_snapshotted_, modVars, terminate_requested, recv_log, host_bufs, config, shared_, shared_ab_>>

deno_clear_last_exception_value(last) == None

deno_clear_last_exception ==
  /\ HostAtTopLevel
  /\ last_exception_' = deno_clear_last_exception_value(last_exception_)
  /\ UNCHANGED <<fatal, stack, user_data_, current_args_, recv_, resolve_cb_, context_, locker_, snapshot_creator_, has_snapshotted_, modVars, terminate_requested, recv_log, host_bufs, config, external_references_, isolate_, shared_, shared_ab_>> /\ returned' = NoValue /\ resolve_log' = <<>> /\ steps' = <<>>

\* deno_lock: assert!(i_mut.locker_.is_none())
lock_assert_removed(locker) == TRUE

lock_assert(locker) == ~locker

deno_lock ==
  /\ HostAtTopLevel
  /\ IF ~lock_assert(locker_)
       THEN Panic("deno_lock: assertion failed: locker_.is_none()")
       ELSE /\ locker_' = TRUE
            /\ UNCHANGED <<fatal, stack, user_data_, current_args_, last_exception_, recv_, resolve_cb_, context_, snapshot_creator_, has_snapshotted_, modVars, terminate_requested, recv_log, host_bufs, config, external_references_, isolate_, shared_, shared_ab_>> /\ returned' = NoValue /\ resolve_log' = <<>> /\ steps' = <<"Locker::new">>

deno_unlock ==
  /\ HostAtTopLevel
  /\ IF ~locker_
       THEN Panic("deno_unlock: locker_.take().unwrap() on None")
       ELSE /\ locker_' = FALSE
            /\ UNCHANGED <<fatal, stack, user_data_, current_args_, last_exception_, recv_, resolve_cb_, context_, snapshot_creator_, has_snapshotted_, modVars, terminate_requested, recv_log, host_bufs, config, external_references_, isolate_, shared_, shared_ab_>> /\ returned' = NoValue /\ resolve_log' = <<>> /\ steps' = <<"drop(locker_)">>

\* v8::OwnedStartupData: the blob deno_snapshot_new returns.
OwnedStartupData == [kind |-> "OwnedStartupData", n |-> 0, s |-> ""]

\* deno_snapshot_new: the value of has_snapshotted_ once create_blob(..)
\* returned; `blob` tells whether it returned Some.
snapshot_new_has_snapshotted_before_blob(current, blob) == TRUE

snapshot_new_has_snapshotted(current, blob) == IF blob THEN TRUE ELSE current

\* deno_snapshot_new: deno_isolate.context_.reset(scope)
snapshot_new_context_keep(current) == current

snapshot_new_context(current) == FALSE

\* deno_snapshot_new(i); create_blob returns an Option that is unwrapped.
deno_snapshot_new(blob) ==
  /\ HostAtTopLevel
  /\ IF ~snapshot_creator_
       THEN Panic("deno_snapshot_new: assertion failed: snapshot_creator_.is_some()")
       ELSE /\ context_' = snapshot_new_context(context_)
            /\ has_snapshotted_' = snapshot_new_has_snapshotted(has_snapshotted_, blob)
            /\ fatal' = IF blob THEN fatal ELSE "deno_snapshot_new: create_blob(..).unwrap() on None"
            /\ returned' = IF blob THEN OwnedStartupData ELSE NoValue
            /\ resolve_log' = <<>> /\ steps' = <<"Locker::new", "HandleScope::new", "context_.reset", "create_blob">>
            /\ UNCHANGED <<stack, user_data_, current_args_, last_exception_, recv_, resolve_cb_, locker_, snapshot_creator_, modVars, terminate_requested, recv_log, host_bufs, config, external_references_, isolate_, shared_, shared_ab_>>

\* Drop for DenoIsolate: the operations of drop, in program order.  The
\* handles are reset inside a block with its own Locker and HandleScope;
\* then locker_ is taken and dropped; then, if snapshot_creator_ is Some,
\* the engine isolate is forgotten and the creator is dropped, by
\* drop(creator) if has_snapshotted_ and at the end of the `if let` block
\* that owns it otherwise; with no creator the engine isolate is dropped.
Drop_steps_isolate_first(modules, locker, creator, snapshotted) ==
  <<"isolate_.take", "drop(isolate)", "Locker::new", "HandleScope::new", "context_.reset", "shared_ab_.reset", "recv_.reset">>
  \o [i \in 1..modules |-> "module.handle.reset"]

Drop_steps(modules, locker, creator, snapshotted) ==
  <<"isolate_.take", "Locker::new", "HandleScope::new", "context_.reset", "shared_ab_.reset", "recv_.reset">>
  \o [i \in 1..modules |-> "module.handle.reset"]
  \o <<"HandleScope::drop", "Locker::drop">>
  \o (IF locker THEN <<"drop(locker_)">> ELSE <<>>)
  \o (IF creator
        THEN <<"forget(isolate)">> \o (IF snapshotted THEN <<"drop(creator)">> ELSE <<"drop(creator)">>)
        ELSE <<"drop(isolate)">>)

\* deno_delete: Box::from_raw(i) is dropped; the fields of the freed
\* DenoIsolate are shown as DenoIsolate::new would leave them.
deno_delete ==
  /\ HostAtTopLevel
  /\ isolate_
  /\ resolve_log' = <<>> /\ steps' = Drop_steps(Cardinality(DOMAIN mods_), locker_, snapshot_creator_, has_snapshotted_)
  /\ isolate_' = FALSE
  /\ context_' = FALSE
  /\ recv_' = NullPtr
  /\ locker_' = FALSE
  /\ snapshot_creator_' = FALSE
  /\ has_snapshotted_' = FALSE
  /\ last_exception_' = None
  /\ resolve_cb_' = FALSE
  /\ mods_' = EmptyMap
  /\ mods_by_name_' = EmptyMap
  /\ module_status' = EmptyMap
  /\ shared_ab_' = NullPtr
  /\ returned' = NoValue
  /\ UNCHANGED <<fatal, stack, user_data_, current_args_, terminate_requested, recv_log, host_bufs, config, external_references_, shared_>>

\* ------------------------------------------------------- specifications
\* The user data of the host in the two larger specifications.
HostUserDatas == {NullPtr, 1}

\* The message bridge: scripts that send, a host that executes and responds
\* from inside recv_cb or later, and the JS recv function.
Next ==
  \/ \E u \in HostUserDatas, src \in Scripts : deno_execute(u, src)
  \/ \E r \in JsResults : execute_return(r)
  \/ \E op \in OpIds : send(op)
  \/ send_return
  \/ \E fn \in JsFns : recv(fn)
  \/ \E u \in HostUserDatas, op \in OpIds, buf \in AllBufs : deno_respond(u, op, buf)
  \/ \E r \in JsResults : respond_return(r)

Spec == Init /\ [][Next]_vars

\* The round trip of one borrowed buffer: the host responds with the same
\* buffer every time, and every buffer up to MaxLen is drawn; another
\* thread may request termination.
InitRoundTrip == \E b \in AllBufs : Start({b}, FALSE)

NextRoundTrip ==
  \/ \E u \in UserDatas, src \in Scripts : deno_execute(u, src)
  \/ \E r \in JsResults : execute_return(r)
  \/ send(U32(0, 7))
  \/ send_return
  \/ recv(1)
  \/ \E u \in UserDatas, buf \in AllBufs : deno_respond(u, U32(0, 7), buf)
  \/ \E r \in JsResults : respond_return(r)
  \/ deno_terminate_execution

SpecRoundTrip == InitRoundTrip /\ [][NextRoundTrip]_vars

\* Every operation of the API on one isolate, created with a snapshot
\* creator so that each of them can succeed.  The host executes and drives modules at top level and
\* responds from inside recv_cb or later; it resolves every import to one
\* module or fails.
InitApi == Start({deno_buf_empty}, TRUE)

Resolvers == {[s \in Specifiers |-> 0], [s \in Specifiers |-> 1]}

NextApi ==
  \/ \E u \in HostUserDatas, src \in Scripts : HostAtTopLevel /\ deno_execute(u, src)
  \/ \E r \in JsResults : execute_return(r)
  \/ send(U32(0, 7))
  \/ send_return
  \/ recv(1)
  \/ \E u \in HostUserDatas : Len(recv_log) < MaxApiRecv /\ deno_respond(u, U32(0, 7), deno_buf_empty)
  \/ \E r \in JsResults : respond_return(r)
  \/ \E u \in HostUserDatas : deno_run_microtasks(u)
  \/ run_microtasks_return
  \/ \E name \in Names, source \in Sources : deno_mod_new(TRUE, name, source)
  \/ \E u \in HostUserDatas, id \in 0..MaxMods, res \in Resolvers : deno_mod_instantiate(u, id, res)
  \/ \E u \in HostUserDatas, id \in 0..MaxMods : deno_mod_evaluate(u, id)
  \/ \E r \in JsResults : mod_evaluate_return(r)
  \/ deno_clear_last_exception
  \/ deno_lock
  \/ deno_unlock
  \/ deno_snapshot_new(TRUE)

SpecApi == InitApi /\ [][NextApi]_vars

\* The module registry alone: the host registers modules under two names,
\* from sources with and without imports, and queries their import lists.
RegistryNames == Names \cup {"b.js"}

RegistrySources == Sources \cup {"leaf"}

InitRegistry == Start({deno_buf_empty}, FALSE)

NextRegistry ==
  \/ \E main \in BOOLEAN, name \in RegistryNames, source \in RegistrySources : deno_mod_new(main, name, source)
  \/ \E id \in 0..MaxMods : deno_mod_imports_len(id)
  \/ \E id \in 0..MaxMods, index \in 0..MaxIndex : deno_mod_imports_get(id, index)
  \/ deno_clear_last_exception

SpecRegistry == InitRegistry /\ [][NextRegistry]_vars

\* The registry when identity hashes repeat: get_identity_hash is not
\* unique, so the engine may report for a new module the hash of an
\* earlier one.
InitHash == Start({deno_buf_empty}, FALSE)

NextHash ==
  \/ \E main \in BOOLEAN, name \in RegistryNames, source \in RegistrySources, id \in 1..MaxMods : register_module(main, name, source, id)
  \/ \E id \in 0..MaxMods : deno_mod_imports_len(id)
  \/ \E id \in 0..MaxMods, index \in 0..MaxIndex : deno_mod_imports_get(id, index)
  \/ deno_clear_last_exception

SpecHash == InitHash /\ [][NextHash]_vars

\* After the snapshot: an isolate made by deno_new_snapshotter runs
\* scripts and registers modules, is snapshotted with deno_snapshot_new and
\* is then used again, with every operation of the API.
InitSnapshot == Start({deno_buf_empty}, TRUE)

NextSnapshot ==
  \/ isolate_ /\ HostAtTopLevel /\ deno_snapshot_new(TRUE)
  \/ isolate_ /\ HostAtTopLevel /\ deno_execute(1, "ok.js")
  \/ \E r \in JsResults : execute_return(r)
  \/ recv(1)
  \/ isolate_ /\ has_snapshotted_ /\ HostAtTopLevel /\ deno_respond(1, U32(0, 7), deno_buf_empty)
  \/ isolate_ /\ has_snapshotted_ /\ deno_run_microtasks(1)
  \/ run_microtasks_return
  \/ \E source \in {"bad", "leaf"} : isolate_ /\ deno_mod_new(TRUE, "a.js", source)
  \/ \E id \in 0..MaxMods : isolate_ /\ has_snapshotted_ /\ HostAtTopLevel /\ deno_mod_imports_len(id)
  \/ \E id \in 0..MaxMods : isolate_ /\ has_snapshotted_ /\ HostAtTopLevel /\ deno_mod_imports_get(id, 0)
  \/ \E id \in 0..MaxMods : isolate_ /\ has_snapshotted_ /\ deno_mod_instantiate(1, id, [s \in Specifiers |-> 0])
  \/ \E id \in 0..MaxMods : isolate_ /\ has_snapshotted_ /\ deno_mod_evaluate(1, id)
  \/ isolate_ /\ has_snapshotted_ /\ deno_clear_last_exception
  \/ isolate_ /\ has_snapshotted_ /\ deno_lock
  \/ isolate_ /\ has_snapshotted_ /\ deno_unlock
  \/ isolate_ /\ HostAtTopLevel /\ has_snapshotted_ /\ deno_terminate_execution
  \/ deno_delete

SpecSnapshot == InitSnapshot /\ [][NextSnapshot]_vars

\* Module ids: the host registers modules and passes any id, registered
\* or not, to the four operations that take one.
InitLookup == Start({deno_buf_empty}, FALSE)

NextLookup ==
  \/ \E source \in {"bad", "leaf"} : deno_mod_new(TRUE, "a.js", source)
  \/ \E id \in 0..MaxMods : deno_mod_imports_len(id)
  \/ \E id \in 0..MaxMods, index \in 0..MaxIndex : deno_mod_imports_get(id, index)
  \/ \E u \in HostUserDatas, id \in 0..MaxMods : deno_mod_instantiate(u, id, [s \in Specifiers |-> 0])
  \/ \E u \in HostUserDatas, id \in 0..MaxMods : deno_mod_evaluate(u, id)
  \/ \E r \in JsResults : mod_evaluate_return(r)
  \/ deno_clear_last_exception

SpecLookup == InitLookup /\ [][NextLookup]_vars

\* Linking and evaluation: modules with two imports, with none and with an
\* import specifier that holds a NUL character; the host resolver answers
\* every specifier with one module id, or with 0.
ModuleSources == {"imp", "leaf", "nul"}

ModuleResolvers == {[s \in Specifiers |-> id] : id \in 0..MaxMods}

InitModules == Start({deno_buf_empty}, FALSE)

NextModules ==
  \/ \E name \in Names, source \in ModuleSources : deno_mod_new(TRUE, name, source)
  \/ \E u \in HostUserDatas, id \in 0..MaxMods, res \in ModuleResolvers : deno_mod_instantiate(u, id, res)
  \/ \E u \in HostUserDatas, id \in 0..MaxMods : deno_mod_evaluate(u, id)
  \/ \E r \in JsResults : mod_evaluate_return(r)
  \/ deno_clear_last_exception

SpecModules == InitModules /\ [][NextModules]_vars

\* User data: every host entry call is made with either user data, at top
\* level and (execute, respond) from inside recv_cb; the JavaScript they
\* run calls send, and the one module that is linked may import itself.
JsOk == [exc |-> NoExc, term |-> FALSE]

InitUserData == Start({deno_buf_empty}, FALSE)

NextUserData ==
  \/ \E u \in HostUserDatas : deno_execute(u, "ok.js")
  \/ execute_return(JsOk)
  \/ send_call(JsUint32(U32(0, 7)), JsOther, JsOther, FALSE)
  \/ send_return
  \/ recv_ = NullPtr /\ recv(1)
  \/ \E u \in HostUserDatas : recv_ # NullPtr /\ recv_log = <<>> /\ deno_respond(u, U32(0, 7), deno_buf_empty)
  \/ respond_return(JsOk)
  \/ \E u \in HostUserDatas : deno_run_microtasks(u)
  \/ run_microtasks_return
  \/ \E source \in {"imp", "leaf"} : mods_ = EmptyMap /\ deno_mod_new(TRUE, "a.js", source)
  \/ \E u \in HostUserDatas, id \in 1..MaxMods, res \in ModuleResolvers : deno_mod_instantiate(u, id, res)
  \/ \E u \in HostUserDatas, id \in 1..MaxMods : get_module_info(id) /\ deno_mod_evaluate(u, id)
  \/ mod_evaluate_return(JsOk)

SpecUserData == InitUserData /\ [][NextUserData]_vars

\* Construction: the host builds an isolate from any deno_config, with
\* deno_new or with deno_new_snapshotter, and then uses it.
Configs == {deno_config(will_snapshot, load_snapshot) : will_snapshot \in {0, 1, 2}, load_snapshot \in BOOLEAN}

InitNew == \E cfg \in Configs : NotCreated({deno_buf_empty}, cfg)

NextNew ==
  \/ deno_new
  \/ deno_new_snapshotter
  \/ \E u \in HostUserDatas, src \in Scripts : isolate_ /\ HostAtTopLevel /\ deno_execute(u, src)
  \/ \E r \in JsResults : execute_return(r)
  \/ isolate_ /\ deno_clear_last_exception
  \/ isolate_ /\ deno_lock
  \/ isolate_ /\ deno_unlock
  \/ \E blob \in BOOLEAN : isolate_ /\ deno_snapshot_new(blob)
  \/ \E name \in Names, source \in Sources : isolate_ /\ deno_mod_new(TRUE, name, source)
  \/ deno_delete

SpecNew == InitNew /\ [][NextNew]_vars

\* Termination: scripts that return, throw or loop for ever, run at top
\* level, and a thread that calls deno_terminate_execution at any moment,
\* also between two statements of handle_exception.
TerminateScripts == {"ok.js", LoopScript}

Returned == [exc |-> NoExc, term |-> FALSE]

Terminated == [exc |-> NullExc, term |-> TRUE]

InitTerminate == Start({deno_buf_empty}, FALSE)

NextTerminate ==
  \/ \E u \in HostUserDatas, src \in TerminateScripts : HostAtTopLevel /\ deno_execute(u, src)
  \/ execute_return(Returned)
  \/ \E r \in JsResults : execute_caught(r)
  \/ handle_exception_cancel
  \/ \E stringified \in BOOLEAN : handle_exception_encode(stringified)
  \/ handle_exception_reraise
  \/ deno_terminate_execution
  \/ deno_clear_last_exception
  \/ deno_lock
  \/ deno_unlock

SpecTerminate == InitTerminate /\ [][NextTerminate]_vars

\* The same with the other thread calling deno_terminate_execution only
\* while JavaScript runs.  The engine tests the termination flag on every
\* loop iteration, and handle_exception is straight-line code: each of
\* these steps is taken once it can be.
NextLoop ==
  \/ \E u \in HostUserDatas, src \in TerminateScripts : HostAtTopLevel /\ deno_execute(u, src)
  \/ execute_return(Returned)
  \/ \E r \in JsResults : execute_caught(r)
  \/ handle_exception_cancel
  \/ \E stringified \in BOOLEAN : handle_exception_encode(stringified)
  \/ handle_exception_reraise
  \/ JsRunning /\ deno_terminate_execution
  \/ deno_clear_last_exception
  \/ deno_lock
  \/ deno_unlock

SpecLoop ==
  /\ InitTerminate
  /\ [][NextLoop]_vars
  /\ WF_vars(execute_caught(Terminated))
  /\ WF_vars(handle_exception_cancel)
  /\ WF_vars(\E stringified \in BOOLEAN : handle_exception_encode(stringified))
  /\ WF_vars(handle_exception_reraise)

\* The shared buffer: isolates made with a null descriptor, with one of
\* length zero and with one of two bytes; scripts read Deno.core.shared
\* any number of times, within one execute and across executes.
SharedBufs == {deno_buf_empty, deno_buf_from(<<>>), deno_buf_from(<<1, 2>>)}

InitShared == \E shared \in SharedBufs : StartShared({deno_buf_empty}, FALSE, shared)

NextShared ==
  \/ \E u \in HostUserDatas : isolate_ /\ HostAtTopLevel /\ deno_execute(u, "ok.js")
  \/ \E r \in JsResults : execute_return(r)
  \/ shared_getter
  \/ \E fn \in JsFns : recv(fn)
  \/ isolate_ /\ deno_clear_last_exception
  \/ deno_delete

SpecShared == InitShared /\ [][NextShared]_vars

\* The arguments of send: scripts call Deno.core.send with every kind of
\* opId, control and zeroCopy; the host answers inside recv_cb or not at
\* all, and may execute another script from there.
SendOpArgs == {JsUint32(U32(0, 7)), JsOther}

SendViewArgs == {JsOther, JsArrayBufferView(<<>>), JsArrayBufferView(<<1, 2>>)}

\* The host answers every send with the id of another, earlier op.
SendRespondOpIds == OpIds \ {op_arg.op_id : op_arg \in SendOpArgs}

InitSend == Start({deno_buf_empty, deno_buf_from(<<1, 2>>)}, FALSE)

NextSend ==
  \/ \E u \in HostUserDatas : deno_execute(u, "ok.js")
  \/ \E r \in JsResults : execute_return(r)
  \/ \E op_arg \in SendOpArgs, control_arg \in SendViewArgs, zero_copy_arg \in SendViewArgs, store_null \in BOOLEAN : send_call(op_arg, control_arg, zero_copy_arg, store_null)
  \/ send_return
  \/ \E u \in HostUserDatas, op_id \in SendRespondOpIds, buf \in host_bufs : current_args_ # NullPtr /\ deno_respond(u, op_id, buf)

SpecSend == InitSend /\ [][NextSend]_vars

\* --------------------------------------------------------------- claims
Max(S) == CHOOSE x \in S : \A y \in S : x >= y

SendFrames == {i \in 1..Len(stack) : stack[i].kind = "send"}

ScopeFrames == {i \in 1..Len(stack) : stack[i].kind \in ScopeKinds}

\* C1 (state part): current_args_ is non-null only while a send is between storing it
\* and the return of recv_cb: when it is set it designates the innermost
\* send on the call stack, which no respond has consumed yet; it is null
\* whenever no send is running, and null after every send returns.
CurrentArgsDesignatesRunningSend ==
  /\ current_args_ # NullPtr =>
       /\ SendFrames # {}
       /\ current_args_ = Max(SendFrames)
       /\ stack[current_args_].sync = 0
  /\ SendFrames = {} => current_args_ = NullPtr

\* C1: the condition above holds initially and after every step, and every
\* return of send leaves current_args_ null.
C1_CurrentArgsOnlyDuringSend ==
  CurrentArgsDesignatesRunningSend /\ [][CurrentArgsDesignatesRunningSend' /\ (send_return => current_args_' = NullPtr)]_vars

\* C1 witness: an outer send was answered synchronously (its slot cleared),
\* and a second send started from inside its recv_cb is now in flight.
C1_Witness == Len(stack) = 4 /\ stack[2].kind = "send" /\ stack[2].sync = 1 /\ stack[4].kind = "send" /\ current_args_ = 4

\* C2: a send that starts while current_args_ is still set by an outer
\* send fails the assertion: the process panics and recv_cb is not entered
\* (no frame is pushed for it).
C2_NestedSendPanics ==
  [][\A op \in OpIds :
       (current_args_ # NullPtr /\ send(op)) =>
         (fatal' = "send: assertion failed: current_args_.is_null()" /\ stack' = stack /\ current_args_' = current_args_)]_vars

\* C2 witness: the assertion has failed with an outer send still in flight.
C2_Witness == fatal = "send: assertion failed: current_args_.is_null()" /\ current_args_ # NullPtr /\ stack[current_args_].kind = "send" /\ Top.kind = "deno_execute"

\* C3: a respond made while current_args_ is non-null sets the return value
\* of the in-flight send to the imported buffer when the buffer is
\* non-empty and leaves it unset otherwise; either way it clears
\* current_args_, does not call the JS recv function, and leaves
\* last_exception_ and user_data_ as they were.
C3_SyncRespond ==
  [][(HostRunning /\ current_args_ # NullPtr) =>
       \A u \in HostUserDatas, op \in OpIds, buf \in host_bufs :
         deno_respond(u, op, buf) =>
           (/\ stack'[current_args_].rv = (IF ~buf.null /\ Len(buf.data) > 0 THEN Uint8Array(buf.data) ELSE Undefined)
            /\ Len(stack') = Len(stack)
            /\ current_args_' = NullPtr
            /\ recv_log' = recv_log
            /\ last_exception_' = last_exception_
            /\ user_data_' = user_data_
            /\ fatal' = "none")]_vars

\* C3 witness: the innermost send has been answered synchronously with the
\* bytes 1, 2 and current_args_ is cleared.
C3_Witness == stack # <<>> /\ Top.kind = "send" /\ Top.sync = 1 /\ Top.rv = Uint8Array(<<1, 2>>) /\ current_args_ = NullPtr

\* C4: no send consumes more than one synchronous respond; a further
\* respond made in the recv_cb of a send that was already answered is
\* asynchronous: it leaves every frame below it (the send's return value
\* included) as it was and, with a recv function registered, calls it once.
C4_AtMostOneSyncRespond ==
  [][(\A i \in 1..Len(stack') : stack'[i].sync <= 1)
     /\ ((HostRunning /\ stack # <<>> /\ Top.sync = 1 /\ fatal' = "none") =>
           \A u \in UserDatas, op \in OpIds, buf \in host_bufs :
             deno_respond(u, op, buf) =>
               (/\ current_args_ = NullPtr
                /\ current_args_' = NullPtr
                /\ SubSeq(stack', 1, Len(stack)) = stack
                /\ (recv_ # NullPtr => (Len(stack') = Len(stack) + 1 /\ recv_log' = Append(recv_log, recv_args(op, buf))))))]_vars

\* C4 witness: a send holds the return value of its one synchronous
\* respond and a second respond from the same recv_cb is running recv.
C4_Witness == \E i \in 1..(Len(stack) - 1) : stack[i].kind = "send" /\ stack[i].sync = 1 /\ stack[i].rv.set /\ stack[i + 1].kind = "deno_respond" /\ recv_log # <<>>

\* C5: every asynchronous respond with a recv function registered appends
\* exactly one call of recv, at the end of the calls made so far, and
\* nothing else adds, removes or reorders calls.
C5_RecvOncePerRespondInOrder ==
  [][((HostRunning /\ current_args_ = NullPtr /\ recv_ # NullPtr /\ fatal' = "none") =>
        \A u \in UserDatas, op \in OpIds, buf \in host_bufs :
          deno_respond(u, op, buf) => recv_log' = Append(recv_log, recv_args(op, buf)))
     /\ (recv_log' # recv_log =>
          (current_args_ = NullPtr /\ recv_ # NullPtr /\ \E u \in UserDatas, op \in OpIds, buf \in host_bufs : deno_respond(u, op, buf)))]_vars

\* C5 witness: two asynchronous responds with different arguments were
\* delivered, the call without arguments first.
C5_Witness == Len(recv_log) = 2 /\ recv_log[1] = NoArgs /\ recv_log[2].argc = 2 /\ recv_log[2].bytes = <<1, 2>>

\* C6: an asynchronous respond with no recv function registered sets
\* last_exception_ to "Deno.core.recv has not been called.", calls no JS
\* function, and returns with user_data_ as it was before the call.
C6_RespondWithoutRecv ==
  [][(HostRunning /\ current_args_ = NullPtr /\ recv_ = NullPtr /\ fatal' = "none") =>
       \A u \in UserDatas, op \in OpIds, buf \in host_bufs :
         deno_respond(u, op, buf) =>
           (/\ last_exception_' = Some(FALSE, <<"Deno.core.recv has not been called.">>)
            /\ recv_log' = recv_log
            /\ stack' = stack
            /\ user_data_' = user_data_)]_vars

\* C6 witness: the message is recorded, no recv function exists, and the
\* call was made inside a scope whose user data is in place again.
C6_Witness == last_exception_ = Some(FALSE, <<"Deno.core.recv has not been called.">>) /\ recv_ = NullPtr /\ recv_log = <<>> /\ stack # <<>> /\ Top.kind = "send" /\ Top.sync = 1 /\ user_data_ = 1

\* The sends that have consumed a synchronous respond.
AnsweredSends == {i \in 1..Len(stack) : stack[i].kind = "send" /\ stack[i].sync = 1}

\* C7 (as the code behaves): importing a borrowed buffer B of length n
\* gives a Uint8Array of length n with the bytes of B, for every n; a send
\* answered synchronously with B returns a typed array with the bytes of B
\* when n > 0, and has no return value set (undefined) when n = 0.
C7_RoundTripNonEmpty ==
  \A b \in host_bufs :
    /\ deno_import_buf(b).set
    /\ Len(deno_import_buf(b).bytes) = Len(b.data)
    /\ deno_import_buf(b).bytes = b.data
    /\ \A i \in AnsweredSends : stack[i].rv = (IF Len(b.data) > 0 THEN Uint8Array(b.data) ELSE Undefined)

\* C7 witness: a send was answered synchronously with a non-null buffer of
\* length 0 and its return value is still unset.
C7_Witness == host_bufs = {deno_buf_from(<<>>)} /\ AnsweredSends # {} /\ \A i \in AnsweredSends : ~stack[i].rv.set

\* C7 as claimed: for every n, n = 0 included, the import gives the bytes
\* of B and a send answered synchronously with B returns a typed array
\* with the bytes of B.
C7_RoundTripEveryLength ==
  \A b \in host_bufs :
    /\ deno_import_buf(b).set
    /\ Len(deno_import_buf(b).bytes) = Len(b.data)
    /\ deno_import_buf(b).bytes = b.data
    /\ \A i \in AnsweredSends : stack[i].rv = Uint8Array(b.data)

\* Does instantiating module id with resolver res fail in the engine.
InstantiateFails(id, res) == get_module_info(id) /\ module_status[id].s = "uninstantiated" /\ ~instantiate_module(NullPtr, <<id>>, {}, res).ok

\* C8 as claimed: a failing execute (the script does not compile, or it
\* throws), a failing mod_instantiate and a failing mod_evaluate each
\* return to the host with last_exception_ set to the encoded exception.
C8_FailureSetsLastException ==
  [][/\ \A u \in UserDatas, src \in Scripts :
          (~Compiles(src) /\ UserDataScope_new(user_data_, u) /\ context_ /\ deno_execute(u, src)) =>
            (fatal' = "none" /\ last_exception_' = encode_exception_as_json(SyntaxError))
     /\ \A r \in JsResults :
          (r.exc # NoExc /\ execute_return(r)) =>
            (fatal' = "none" /\ last_exception_'.some /\ last_exception_'.json)
     /\ \A u \in UserDatas, id \in 0..MaxMods, res \in Resolvers :
          (HostAtTopLevel /\ InstantiateFails(id, res) /\ deno_mod_instantiate(u, id, res) /\ fatal' = "none") =>
            (last_exception_'.some /\ last_exception_'.json)
     /\ \A r \in JsResults :
          (r.exc # NoExc /\ mod_evaluate_return(r)) =>
            (fatal' = "none" /\ last_exception_'.some /\ last_exception_'.json)]_vars

\* C9: last_exception_ goes from set to empty only in
\* deno_clear_last_exception or in a deno_mod_evaluate that finds the
\* module Evaluated (already, or after evaluating it); no other step of
\* any operation empties it.
C9_ClearedOnlyByClearOrEvaluated ==
  [][(last_exception_.some /\ ~last_exception_'.some) =>
       \/ deno_clear_last_exception
       \/ \E u \in UserDatas, id \in 1..MaxMods : get_module_info(id) /\ module_status[id].s = "evaluated" /\ deno_mod_evaluate(u, id)
       \/ \E r \in JsResults : r.exc = NoExc /\ mod_evaluate_return(r) /\ module_status'[Top.mod].s = "evaluated"]_vars

\* C9 witness: an exception recorded by an earlier call is still there
\* after a later module was instantiated and an execute is under way.
C9_Witness == last_exception_.some /\ locker_ /\ stack # <<>> /\ Top.kind = "deno_execute" /\ \E id \in DOMAIN module_status : module_status[id].s = "instantiated"

\* C10 (state part): user_data_ is the data of the innermost open User-Data Scope and
\* null when none is open; every scope remembers the value it found, a
\* return restores exactly that value, and a call that opens and closes
\* its scope in one step (an early return) leaves user_data_ as it was.
UserDataIsInnermostScope ==
  /\ user_data_ = (IF ScopeFrames = {} THEN NullPtr ELSE stack[Max(ScopeFrames)].data)
  /\ \A i \in ScopeFrames :
       LET below == {j \in ScopeFrames : j < i}
       IN stack[i].prev = (IF below = {} THEN NullPtr ELSE stack[Max(below)].data)

\* C10: the condition above holds initially and after every step; a step
\* that leaves the call stack as it was leaves user_data_ as it was, and the
\* return of a scope-opening call restores the value the call found.
C10_UserDataScopesNest ==
  UserDataIsInnermostScope /\ [][/\ UserDataIsInnermostScope'
                                 /\ (stack' = stack => user_data_' = user_data_)
                                 /\ ((fatal' = "none" /\ Len(stack') < Len(stack) /\ Top.kind \in ScopeKinds) => user_data_' = Top.prev)]_vars

\* C10 witness: a recv function run by an asynchronous respond threw, an
\* instantiate returned early, and user_data_ is null again with nothing
\* on the call stack.
C10_Witness == stack = <<>> /\ user_data_ = NullPtr /\ recv_log # <<>> /\ resolve_cb_ /\ last_exception_ = Some(TRUE, <<"Uncaught", "Error: boom">>)

\* A nested scope was opened with the value user_data_ already had.
NestedScopesKeepUserData == \A i \in ScopeFrames : stack[i].prev # NullPtr => stack[i].data = stack[i].prev

\* C11: while user_data_ is non-null, a call that opens a UserDataScope
\* (deno_execute, or a deno_respond that is not a synchronous response)
\* passes the assertion of UserDataScope::new only with the value user_data_
\* already has, and user_data_ then stays what it is when the scope opens
\* and when it closes again; with any other value the call panics on that
\* assertion with user_data_ and the call stack untouched.
C11_ScopeOpensOnlyWithSameValue ==
  /\ NestedScopesKeepUserData
  /\ [][/\ NestedScopesKeepUserData'
        /\ (HostRunning /\ user_data_ # NullPtr) =>
             (\A u \in UserDatas :
                ((\E src \in Scripts : deno_execute(u, src)) \/ (~respond_is_sync(current_args_) /\ \E buf \in host_bufs : deno_respond(u, U32(0, 7), buf))) =>
                   IF u = user_data_
                     THEN fatal' # "UserDataScope::new: assertion failed" /\ user_data_' = user_data_
                     ELSE fatal' = "UserDataScope::new: assertion failed" /\ user_data_' = user_data_ /\ stack' = stack)
        /\ (JsRunning /\ stack' = Pop /\ Top.prev # NullPtr) => user_data_' = user_data_]_vars

C11_Witness == fatal = "UserDataScope::new: assertion failed" /\ user_data_ # NullPtr /\ \E i \in ScopeFrames : stack[i].prev # NullPtr

\* C12: a deno_mod_new whose source does not compile returns 0, stores the
\* encoded exception in last_exception_ and leaves mods_ and mods_by_name_
\* as they are; one whose source compiles returns a non-zero id that mods_
\* then maps to the given main flag, name and the import specifiers of the
\* source.
C12_ModNewResult ==
  [][HostAtTopLevel =>
       (\A main \in BOOLEAN, name \in RegistryNames, source \in RegistrySources :
          deno_mod_new(main, name, source) =>
            IF ~ModuleCompiles(source)
              THEN /\ returned' = deno_mod(0)
                   /\ last_exception_' # None
                   /\ last_exception_' = encode_exception_as_json(SyntaxError)
                   /\ mods_' = mods_
                   /\ mods_by_name_' = mods_by_name_
              ELSE /\ returned'.kind = "deno_mod"
                   /\ returned'.n # 0
                   /\ returned'.n \in DOMAIN mods_'
                   /\ mods_'[returned'.n] = [main |-> main, name |-> name, import_specifiers |-> ModuleRequests(source)])]_vars

C12_Witness == returned = deno_mod(0) /\ last_exception_ # None /\ \E id \in DOMAIN mods_ : mods_[id].import_specifiers # <<>>

\* The name-to-id map designates, for every registered name, one module of
\* that name, and every name of a registered module is a key of the map.
NameDesignatesOneModule ==
  /\ \A name \in DOMAIN mods_by_name_ : get_module_info(mods_by_name_[name]) /\ mods_[mods_by_name_[name]].name = name
  /\ \A id \in DOMAIN mods_ : mods_[id].name \in DOMAIN mods_by_name_

C14_SecondRegistrationKeepsFirst ==
  [][/\ \A id \in DOMAIN mods_ : id # 0 /\ id \in DOMAIN mods_' /\ mods_'[id] = mods_[id]
     /\ HostAtTopLevel =>
          (\A main \in BOOLEAN, name \in RegistryNames, source \in RegistrySources :
             (deno_mod_new(main, name, source) /\ ModuleCompiles(source)) =>
                (\A id1 \in DOMAIN mods_ :
                   (mods_[id1] = [main |-> main, name |-> name, import_specifiers |-> ModuleRequests(source)] /\ returned'.n # id1 /\ returned'.n # 0) =>
                      (/\ id1 \in DOMAIN mods_' /\ mods_'[id1] = mods_[id1]
                       /\ returned'.n \in DOMAIN mods_' /\ mods_'[returned'.n] = mods_[id1])))]_vars

C14_Witness == \E id1, id2 \in DOMAIN mods_ : id1 # id2 /\ mods_[id1] = mods_[id2] /\ returned = deno_mod(id2) /\ get_module_info(id1) /\ get_module_info(id2)

C16_ResolverCalledOncePerRequest ==
  \A referrer_id \in DOMAIN mods_, res \in ModuleResolvers, u \in HostUserDatas :
    \A i \in 1..Len(mods_[referrer_id].import_specifiers) :
      LET specifier == mods_[referrer_id].import_specifiers[i]
          r == resolve_callback(u, referrer_id, specifier, res)
      IN /\ ~r.panic
         /\ r.calls = <<ResolveCall(u, specifier, referrer_id)>>
         /\ r.ok <=> (res[specifier] # 0 /\ res[specifier] \in DOMAIN mods_)
         /\ r.ok => r.id = res[specifier] /\ r.exc = NoExc
         /\ ~r.ok => r.exc = <<"Cannot resolve module", specifier, mods_[referrer_id].name>>

\* C17: the resolver slot is empty whenever the host is between two API
\* calls, so after deno_mod_instantiate returned on any path, and no
\* deno_mod_instantiate fails the assertion that the slot is empty.
C17_ResolverSlotEmptyAfterInstantiate ==
  /\ HostAtTopLevel => ~resolve_cb_
  /\ fatal # "deno_mod_instantiate: assertion failed: resolve_cb_.is_none()"

\* C18: deno_mod_instantiate on a module in the Errored state leaves
\* last_exception_, the registry, the resolver slot, user_data_ and the
\* status of every module as they were before the call.
C18_InstantiateErroredIsNoOp ==
  [][(HostAtTopLevel /\ ~resolve_cb_) =>
       (\A u \in HostUserDatas, id \in DOMAIN mods_, res \in ModuleResolvers :
          (module_status[id].s = "errored" /\ deno_mod_instantiate(u, id, res) /\ fatal' = "none") =>
             UNCHANGED <<last_exception_, mods_, mods_by_name_, resolve_cb_, user_data_, module_status>>)]_vars

\* C19: deno_mod_evaluate on a registered module dispatches on its status.
\* Instantiated: the module is evaluated (or found to depend on an errored
\* module) and is Evaluated or Errored when the call returns, never
\* Instantiated again.  Evaluated, before the call or by it: last_exception_
\* is cleared, and a module that was Evaluated before is not run.  Errored,
\* before the call or by it: the module's exception is encoded into
\* last_exception_.  Any other status: the call panics.
C19_EvaluateDispatchesOnStatus ==
  [][/\ HostAtTopLevel =>
          (\A u \in HostUserDatas, id \in DOMAIN mods_ :
             deno_mod_evaluate(u, id) =>
               LET status == module_status[id].s
               IN IF status = "instantiated"
                    THEN \/ stack' = <<[Frame("deno_mod_evaluate", u, NullPtr) EXCEPT !.mod = id]>> /\ module_status' = module_status
                         \/ stack' = stack /\ module_status'[id].s = "errored" /\ last_exception_' = handle_exception(module_status'[id].exc, FALSE)
                  ELSE IF status = "evaluated"
                    THEN stack' = stack /\ module_status' = module_status /\ last_exception_' = None /\ fatal' = "none"
                  ELSE IF status = "errored"
                    THEN stack' = stack /\ module_status' = module_status /\ last_exception_' = handle_exception(module_status[id].exc, FALSE) /\ last_exception_' # None /\ fatal' = "none"
                  ELSE fatal' = "deno_mod_evaluate: Unexpected module status" /\ stack' = stack)
     /\ (JsRunning /\ stack' = Pop /\ Top.kind = "deno_mod_evaluate") =>
          (/\ module_status[Top.mod].s = "instantiated"
           /\ module_status'[Top.mod].s \in {"evaluated", "errored"}
           /\ module_status'[Top.mod].s = "evaluated" => last_exception_' = None
           /\ module_status'[Top.mod].s = "errored" => (last_exception_' = handle_exception(module_status'[Top.mod].exc, FALSE) /\ last_exception_' # None))]_vars

C19_Witness == HostAtTopLevel /\ last_exception_ = None /\ \E a, b \in DOMAIN module_status : module_status[a].s = "evaluated" /\ module_status[b].s = "errored"

\* A config with will_snapshot set and a snapshot to load has no isolate.
NoIsolateFromSnapshotToSnapshot == (config.will_snapshot # 0 /\ config.load_snapshot) => ~isolate_

\* C20: a config with will_snapshot set and a snapshot to load never yields
\* an isolate.  deno_new with will_snapshot set does what
\* deno_new_snapshotter does: it panics on the load_snapshot assertion when
\* a snapshot is to be loaded, and builds an isolate with a snapshot
\* creator otherwise.  deno_new_snapshotter with will_snapshot unset panics
\* on the will_snapshot assertion.
C20_SnapshotterRejectsLoadSnapshot ==
  /\ NoIsolateFromSnapshotToSnapshot
  /\ [][/\ NoIsolateFromSnapshotToSnapshot'
        /\ (fatal = "none" /\ ~isolate_) =>
             (/\ (deno_new /\ config.will_snapshot # 0) => deno_new_snapshotter
              /\ ((deno_new \/ deno_new_snapshotter) /\ config.will_snapshot # 0) =>
                    IF config.load_snapshot
                      THEN fatal' = "deno_new_snapshotter: assertion failed: load_snapshot.is_none()" /\ ~isolate_'
                      ELSE fatal' = "none" /\ isolate_' /\ snapshot_creator_'
              /\ (deno_new_snapshotter /\ config.will_snapshot = 0) =>
                    (fatal' = "deno_new_snapshotter: assertion failed: will_snapshot != 0" /\ ~isolate_'))]_vars

C20_Witness == fatal = "deno_new_snapshotter: assertion failed: load_snapshot.is_none()" /\ ~isolate_ /\ config.will_snapshot # 0 /\ config.load_snapshot

\* How often an operation occurs among the steps of a call.
Count(op, log) == Cardinality({i \in 1..Len(log) : log[i] = op})

\* C21: a creation that returns an isolate (deno_new or
\* deno_new_snapshotter) runs initialize_context exactly once when the
\* config holds no snapshot to load and not at all when it holds one, and
\* in both cases the isolate it returns has a non-empty context_; no other
\* call runs initialize_context.
C21_ContextInitializedOnceUnlessLoaded ==
  [][/\ (fatal = "none" /\ ~isolate_) =>
          (((deno_new \/ deno_new_snapshotter) /\ isolate_') =>
             (/\ Count("initialize_context", steps') = (IF config.load_snapshot THEN 0 ELSE 1)
              /\ Count("context_.set", steps') = 1
              /\ context_'))
     /\ isolate_ => Count("initialize_context", steps') = 0]_vars

C21_Witness == isolate_ /\ config.load_snapshot /\ returned = isolate_ptr /\ context_ /\ Count("initialize_context", steps) = 0

\* Where an operation occurs among the steps of a call.
Positions(ops, log) == {i \in 1..Len(log) : log[i] \in ops}

\* C22: deno_delete of an isolate with a snapshot creator never drops the
\* engine isolate, and drops the creator if and only if deno_snapshot_new
\* has been called (has_snapshotted_).
C22_CreatorLeakedUntilSnapshot ==
  [][(HostAtTopLevel /\ isolate_ /\ snapshot_creator_) =>
       (deno_delete =>
          (/\ Count("drop(isolate)", steps') = 0
           /\ Count("drop(creator)", steps') = (IF has_snapshotted_ THEN 1 ELSE 0)))]_vars

\* C23: deno_delete first resets context_, shared_ab_, recv_ and the handle
\* of every registered module, then drops locker_ if deno_lock holds one,
\* and only then releases the engine isolate; without a snapshot creator
\* the engine isolate is released exactly once, after every reset, and the
\* isolate is left with no handle set.
C23_DeleteResetsThenUnlocksThenReleases ==
  [][(HostAtTopLevel /\ isolate_) =>
       (deno_delete =>
          LET resets == Positions({"context_.reset", "shared_ab_.reset", "recv_.reset", "module.handle.reset"}, steps')
              unlocks == Positions({"drop(locker_)"}, steps')
              releases == Positions({"drop(isolate)", "drop(creator)"}, steps')
          IN /\ Count("context_.reset", steps') = 1
             /\ Count("shared_ab_.reset", steps') = 1
             /\ Count("recv_.reset", steps') = 1
             /\ Count("module.handle.reset", steps') = Cardinality(DOMAIN mods_)
             /\ Cardinality(unlocks) = (IF locker_ THEN 1 ELSE 0)
             /\ \A r \in resets, u \in unlocks : r < u
             /\ \A r \in resets \cup unlocks, d \in releases : r < d
             /\ ~snapshot_creator_ => Count("drop(isolate)", steps') = 1
             /\ ~context_' /\ recv_' = NullPtr /\ ~locker_' /\ ~isolate_')]_vars

C23_Witness == ~isolate_ /\ Count("drop(isolate)", steps) = 1 /\ Count("drop(locker_)", steps) = 1 /\ Count("module.handle.reset", steps) = MaxMods

\* C24: deno_lock returns only when no lock is held and then one is held;
\* deno_unlock returns only when a lock is held and then none is held;
\* deno_lock with a lock held and deno_unlock with none held panic and
\* leave locker_ as it is.
C24_LockAlternates ==
  [][(HostAtTopLevel /\ isolate_) =>
       (/\ deno_lock =>
              IF locker_
                THEN fatal' = "deno_lock: assertion failed: locker_.is_none()" /\ locker_'
                ELSE fatal' = "none" /\ locker_'
        /\ deno_unlock =>
              IF locker_
                THEN fatal' = "none" /\ ~locker_'
                ELSE fatal' = "deno_unlock: locker_.take().unwrap() on None" /\ ~locker_')]_vars

C24_Witness == fatal = "deno_lock: assertion failed: locker_.is_none()" /\ locker_ /\ isolate_

\* C25: the JS recv handler is installed once.  The first Deno.core.recv(fn)
\* stores fn; every later call throws "Deno.core.recv already called." and
\* leaves recv_ as it is; recv_, once set, never changes, and the function
\* every asynchronous deno_respond calls is the stored, first-registered one.
C25_RecvInstalledOnce ==
  [][/\ \A fn \in JsFns :
          recv(fn) => IF recv_ = NullPtr
                        THEN recv_' = fn /\ steps' = <<"Locker::new", "HandleScope::new", "recv_.set">>
                        ELSE recv_' = recv_ /\ steps' = <<"Locker::new", "HandleScope::new", "throw_exception: Deno.core.recv already called.">>
     /\ recv_ # NullPtr => recv_' = recv_
     /\ \A i \in 1..Len(stack') : stack'[i].kind = "deno_respond" => stack'[i].fn = recv_' /\ recv_' # NullPtr]_vars

C25_Witness ==
  /\ recv_ # NullPtr
  /\ steps = <<"Locker::new", "HandleScope::new", "throw_exception: Deno.core.recv already called.">>
  /\ stack # <<>> /\ Top.kind = "deno_respond" /\ Top.fn = recv_

\* C29: synchronous round trips nest.  Whenever the host runs while a send
\* awaits its response, that send is the innermost frame; a synchronous
\* deno_respond sets the return value of that send and of no other; the
\* return value of a send changes only by the one synchronous respond made
\* for it, so an outer send still returns its own buffer after the host ran
\* a script that sent and was answered inside its recv_cb.
C29_SyncRoundTripsAreLIFO ==
  [][/\ (HostRunning /\ current_args_ # NullPtr) => (current_args_ = Len(stack) /\ Top.kind = "send" /\ Top.sync = 0 /\ Top.rv = Undefined)
     /\ current_args_ # NullPtr =>
          \A u \in HostUserDatas, op \in OpIds, buf \in host_bufs :
            deno_respond(u, op, buf) =>
              /\ stack' = [stack EXCEPT ![Len(stack)].rv = IF ~buf.null /\ Len(buf.data) > 0 THEN Uint8Array(buf.data) ELSE Undefined, ![Len(stack)].sync = 1]
              /\ current_args_' = NullPtr
     /\ \A i \in 1..Len(stack) :
          (i <= Len(stack') /\ stack'[i].rv # stack[i].rv) => (i = Len(stack) /\ current_args_ = i /\ stack[i].kind = "send")
     /\ \A i \in 1..Len(stack') : stack'[i].sync <= 1]_vars

C29_Witness ==
  /\ Len(stack) = 4
  /\ stack[2].kind = "send" /\ stack[2].sync = 1 /\ stack[2].rv = Uint8Array(<<1, 2>>)
  /\ stack[3].kind = "deno_execute"
  /\ stack[4].kind = "send" /\ stack[4].sync = 1 /\ stack[4].rv = Undefined
  /\ current_args_ = NullPtr

\* C30: an asynchronous deno_respond calls recv with no arguments when buf
\* is null and with (op_id, imported buf) otherwise, and the op_id recv
\* receives is the number the host passed, for every u32.
C30_RecvGetsHostOpId ==
  [][(recv_ # NullPtr /\ current_args_ = NullPtr) =>
       \A u \in HostUserDatas, op \in OpIds, buf \in host_bufs :
         deno_respond(u, op, buf) =>
           (fatal' = "none" =>
              recv_log' = Append(recv_log, IF buf.null THEN NoArgs ELSE [argc |-> 2, op_id |-> JsInt(1, op.hi, op.lo), bytes |-> deno_import_buf(buf).bytes]))]_vars

\* C28: a call that enters a context (deno_execute, deno_mod_new,
\* deno_mod_instantiate, deno_mod_evaluate, the asynchronous deno_respond)
\* has acquired the lock, then opened a handle scope, then fetched the
\* stored context and entered it, and only then pushed its UserDataScope.
C28_EntrySetupInOrder ==
  Count("context.enter", steps) > 0 =>
    LET lock == Positions({"Locker::new"}, steps)
        scope == Positions({"HandleScope::new"}, steps)
        stored == Positions({"context_.get"}, steps)
        enter == Positions({"context.enter"}, steps)
        user == Positions({"UserDataScope::new"}, steps)
    IN /\ Cardinality(lock) = 1 /\ Cardinality(scope) = 1 /\ Cardinality(stored) = 1 /\ Cardinality(enter) = 1
       /\ \A l \in lock, h \in scope : l < h
       /\ \A h \in scope, c \in stored : h < c
       /\ \A c \in stored, e \in enter : c < e
       /\ \A e \in enter, u \in user : e < u

\* C26: if deno_terminate_execution is called from another thread while
\* deno_execute runs while(true){}, deno_execute eventually returns to the
\* host, and last_exception_ then holds "execution terminated".
C26_TerminateEndsExecute ==
  (JsRunning /\ Top.kind = "deno_execute" /\ Top.src = LoopScript /\ terminate_requested)
    ~> (fatal = "none" /\ stack = <<>> /\ last_exception_ = Some(TRUE, <<"Uncaught", "Error: execution terminated">>))

C26_Witness ==
  /\ fatal = "none" /\ stack = <<>> /\ terminate_requested
  /\ steps = <<"terminate_execution", "context.exit">>
  /\ last_exception_ = Some(TRUE, <<"Uncaught", "Error: execution terminated">>)

\* C27: an exception reported while the isolate is terminating is handled
\* by cancelling the termination, encoding the exception ("execution
\* terminated" for a null one) into last_exception_ and re-raising the
\* termination, in this order; the handler returns with last_exception_
\* set and the termination pending, whatever deno_terminate_execution
\* calls another thread makes meanwhile.
C27_HandlerCancelsEncodesReraises ==
  [][(fatal = "none" /\ stack # <<>> /\ Top.kind = "handle_exception" /\ Top.term) =>
       /\ fatal' = "none"
       /\ handle_exception_cancel => (~terminate_requested' /\ Top.pc = "cancel" /\ stack'[Len(stack)].pc = "encode")
       /\ (Top.pc = "encode" /\ last_exception_' # last_exception_) =>
            (/\ last_exception_' = encode_exception_as_json(IF Top.exc = NullExc THEN <<"Error: execution terminated">> ELSE Top.exc)
             /\ stack'[Len(stack)].pc = "reraise")
       /\ stack' = Pop => (Top.pc = "reraise" /\ last_exception_' # None /\ terminate_requested')]_vars

\* C31: deno_snapshot_new on an isolate without a snapshot creator fails
\* its assertion and changes nothing; with one it resets context_, then
\* has the creator make the blob, and sets has_snapshotted_ only when the
\* blob exists.  has_snapshotted_ becomes true in no other way, and only
\* an isolate with a snapshot creator has it set.
C31_SnapshottedOnlyWithBlob ==
  [][/\ (HostAtTopLevel /\ isolate_) =>
          \A blob \in BOOLEAN :
            deno_snapshot_new(blob) =>
              IF ~snapshot_creator_
                THEN fatal' = "deno_snapshot_new: assertion failed: snapshot_creator_.is_some()" /\ context_' = context_ /\ has_snapshotted_' = has_snapshotted_
                ELSE /\ ~context_'
                     /\ \A r \in Positions({"context_.reset"}, steps'), c \in Positions({"create_blob"}, steps') : r < c
                     /\ Count("context_.reset", steps') = 1 /\ Count("create_blob", steps') = 1
                     /\ has_snapshotted_' = (has_snapshotted_ \/ blob)
                     /\ (returned' = OwnedStartupData) = blob
                     /\ (fatal' = "none") = blob
     /\ (has_snapshotted_' /\ ~has_snapshotted_) => (returned' = OwnedStartupData /\ snapshot_creator_ /\ fatal' = "none")]_vars

C31_Witness == fatal = "deno_snapshot_new: create_blob(..).unwrap() on None" /\ ~has_snapshotted_ /\ ~context_ /\ snapshot_creator_ /\ isolate_

\* C32 as claimed: the getter returns undefined and creates nothing when
\* the descriptor is empty (no bytes); otherwise it creates the
\* SharedArrayBuffer on the first access only and returns the cached one
\* afterwards.
C32_UndefinedWhenDescriptorEmpty ==
  [][JsRunning =>
       (shared_getter =>
          IF shared_.null \/ Len(shared_.data) = 0
            THEN returned' = JsUndefined /\ shared_ab_' = shared_ab_ /\ Count("SharedArrayBuffer::new", steps') = 0
            ELSE /\ shared_ab_' # NullPtr
                 /\ returned' = SharedArrayBuffer(shared_ab_')
                 /\ Count("SharedArrayBuffer::new", steps') = (IF shared_ab_ = NullPtr THEN 1 ELSE 0)
                 /\ (shared_ab_ # NullPtr => shared_ab_' = shared_ab_))]_vars

\* C32, amended: the getter returns undefined and creates nothing when the
\* data pointer of the descriptor is null; for any other descriptor, one
\* of length zero included, it creates the SharedArrayBuffer on the first
\* access only and returns the cached handle on every later access; the
\* handle, once set, changes only when the isolate is deleted.
C32_UndefinedWhenDescriptorNull ==
  [][/\ JsRunning =>
          (shared_getter =>
             IF shared_.null
               THEN returned' = JsUndefined /\ shared_ab_' = shared_ab_ /\ Count("SharedArrayBuffer::new", steps') = 0
               ELSE /\ shared_ab_' # NullPtr
                    /\ returned' = SharedArrayBuffer(shared_ab_')
                    /\ Count("SharedArrayBuffer::new", steps') = (IF shared_ab_ = NullPtr THEN 1 ELSE 0)
                    /\ Count("shared_ab_.set", steps') = (IF shared_ab_ = NullPtr THEN 1 ELSE 0)
                    /\ (shared_ab_ # NullPtr => shared_ab_' = shared_ab_))
     /\ (shared_ab_ # NullPtr /\ isolate_') => shared_ab_' = shared_ab_
     /\ shared_ab_' # shared_ab_ => (shared_getter \/ deno_delete)]_vars

C32_Witness ==
  /\ ~shared_.null /\ Len(shared_.data) = 0
  /\ returned = SharedArrayBuffer(1) /\ shared_ab_ = 1
  /\ steps = <<"EscapableHandleScope::new", "shared_ab_.get">>

\* C33: a send with a Uint32 opId, made while no other send awaits its
\* response, calls recv_cb exactly once, with that op_id, with a control
\* buffer that holds bytes only if the control argument is an
\* ArrayBufferView (the empty buffer for any other value), and with a
\* pinned buffer if and only if the zeroCopy argument is an ArrayBufferView.
C33_SendCallsRecvCbOnce ==
  [][(JsRunning /\ context_ /\ current_args_ = NullPtr /\ Len(stack) < MaxDepth) =>
       \A op_arg \in SendOpArgs, control_arg \in SendViewArgs, zero_copy_arg \in SendViewArgs, store_null \in BOOLEAN :
         (op_arg.type = "Uint32" /\ send_call(op_arg, control_arg, zero_copy_arg, store_null)) =>
           /\ fatal' = "none"
           /\ Len(stack') = Len(stack) + 1
           /\ stack'[Len(stack')].kind = "send"
           /\ stack'[Len(stack')].cb.op_id = op_arg.op_id
           /\ stack'[Len(stack')].cb.user_data = user_data_
           /\ (control_arg.type # "ArrayBufferView" => stack'[Len(stack')].cb.control = deno_buf_empty)
           /\ (control_arg.type = "ArrayBufferView" => stack'[Len(stack')].cb.control.data = control_arg.bytes)
           /\ (stack'[Len(stack')].cb.zero_copy.some = (zero_copy_arg.type = "ArrayBufferView"))
           /\ (zero_copy_arg.type = "ArrayBufferView" => stack'[Len(stack')].cb.zero_copy.data = zero_copy_arg.bytes)
           /\ Count("recv_cb", steps') = 1]_vars

\* C34: every native the context initializer installs (print, recv, send,
\* evalContext, errorToJSON, the shared getter, queueMicrotask) is in the
\* external-reference table, and an isolate created to load a snapshot,
\* without a snapshot, or to make a snapshot has that same table
\* registered, from its creation on.
C34_ExposedNativesAreExternalReferences ==
  /\ {initialize_context[property] : property \in DOMAIN initialize_context} \subseteq EXTERNAL_REFERENCES
  /\ DOMAIN initialize_context = {"print", "recv", "send", "evalContext", "errorToJSON", "shared", "queueMicrotask"}
  /\ (isolate_ => /\ external_references_ = EXTERNAL_REFERENCES
                  /\ \A property \in DOMAIN initialize_context : initialize_context[property] \in external_references_)

C34_Witness ==
  /\ isolate_ /\ fatal = "none" /\ returned = isolate_ptr
  /\ config.will_snapshot = 0 /\ config.load_snapshot
  /\ Count("initialize_context", steps) = 0
  /\ "shared_getter" \in external_references_

\* C35: a respond made while current_args_ is set is the synchronous reply
\* of the send in flight whatever op_id and user_data it carries: a buffer
\* that is not empty becomes that send's return value, current_args_ is
\* cleared, and recv is not called, no scope is entered and no exception
\* is recorded, although the op_id differs from the one the send passed to
\* recv_cb.
C35_SyncRespondIgnoresOpId ==
  [][(fatal = "none" /\ current_args_ # NullPtr /\ context_) =>
       \A u \in HostUserDatas, op_id \in SendRespondOpIds, buf \in host_bufs :
         deno_respond(u, op_id, buf) =>
           /\ op_id # stack[current_args_].cb.op_id
           /\ stack[current_args_].kind = "send"
           /\ fatal' = "none"
           /\ current_args_' = NullPtr
           /\ Len(stack') = Len(stack)
           /\ stack'[current_args_].rv = (IF Len(buf.data) > 0 THEN Uint8Array(buf.data) ELSE stack[current_args_].rv)
           /\ stack'[current_args_].sync = stack[current_args_].sync + 1
           /\ \A i \in 1..Len(stack) : i # current_args_ => stack'[i] = stack[i]
           /\ recv_log' = recv_log
           /\ last_exception_' = last_exception_
           /\ user_data_' = user_data_
           /\ Count("UserDataScope::new", steps') = 0
           /\ Count("context.enter", steps') = 0]_vars

C35_Witness ==
  /\ fatal = "none" /\ stack # <<>> /\ current_args_ = NullPtr
  /\ stack[Len(stack)].kind = "send"
  /\ stack[Len(stack)].cb.op_id = U32(0, 7)
  /\ stack[Len(stack)].sync = 1
  /\ stack[Len(stack)].rv = Uint8Array(<<1, 2>>)
  /\ recv_log = <<>> /\ last_exception_ = None

\* C36: context entry and exit are balanced on every return path: a call
\* that returns (mod_new, mod_instantiate, a mod_evaluate that runs no
\* JavaScript, a respond without recv) has exited the context as often as
\* it entered it, a call that starts JavaScript (execute, mod_evaluate,
\* asynchronous respond) has one entry open while its frame is on the
\* stack, and its return closes it.
ContextKinds == {"deno_execute", "deno_respond", "deno_mod_evaluate"}

ContextFrames(frames) == {i \in 1..Len(frames) : frames[i].kind \in ContextKinds}

C36_ContextEnterExitBalanced ==
  [][fatal' = "none" =>
       Count("context.enter", steps') - Count("context.exit", steps') = Cardinality(ContextFrames(stack')) - Cardinality(ContextFrames(stack))]_vars

\* C37: after any sequence of deno_mod_new calls, with names reused and
\* identity hashes repeated, every entry of mods_by_name_ leads to an entry
\* of mods_ that carries that name, and the name of every entry of mods_
\* is a key of mods_by_name_.
C37_RegistryMappingsConsistent ==
  /\ \A name \in DOMAIN mods_by_name_ :
       /\ mods_by_name_[name] \in DOMAIN mods_
       /\ mods_[mods_by_name_[name]].name = name
  /\ \A id \in DOMAIN mods_ : mods_[id].name \in DOMAIN mods_by_name_

\* C38 (as amended): once deno_snapshot_new has returned a blob, context_
\* is empty for as long as the isolate lives, and every later
\* deno_execute, deno_mod_instantiate, deno_mod_evaluate and asynchronous
\* deno_respond fails its assertion that context_ is not empty.  The
\* operations that do not read context_ still succeed: clear_last_exception,
\* mod_imports_len of a registered id, mod_imports_get, lock, unlock and
\* delete, and also mod_new, run_microtasks and terminate_execution.
C38_ContextOperationsFail ==
  /\ ~context_
  /\ (isolate_' => ~context_')
  /\ HostAtTopLevel =>
       /\ \A src \in Scripts :
            deno_execute(1, src) => fatal' = "deno_execute: assertion failed: !context_.is_empty()"
       /\ \A id \in 0..MaxMods :
            deno_mod_instantiate(1, id, [s \in Specifiers |-> 0]) => fatal' = "deno_mod_instantiate: assertion failed: !context_.is_empty()"
       /\ \A id \in 0..MaxMods :
            deno_mod_evaluate(1, id) => fatal' = "deno_mod_evaluate: assertion failed: !context_.is_empty()"
       /\ \A buf \in host_bufs :
            deno_respond(1, U32(0, 7), buf) => fatal' = "deno_respond: assertion failed: !context_.is_empty()"

C38_ContextFreeOperation ==
  \/ deno_clear_last_exception
  \/ \E id \in DOMAIN mods_ : deno_mod_imports_len(id)
  \/ \E id \in 0..MaxMods, index \in 0..MaxIndex : deno_mod_imports_get(id, index)
  \/ ~locker_ /\ deno_lock
  \/ locker_ /\ deno_unlock
  \/ deno_delete

C38_SnapshottedIsolateKeepsNoContext ==
  [][(isolate_ /\ has_snapshotted_ /\ fatal = "none") =>
       /\ C38_ContextOperationsFail
       /\ C38_ContextFreeOperation => fatal' = "none" /\ stack' = stack
       /\ (\E source \in {"bad", "leaf"} : deno_mod_new(TRUE, "a.js", source)) => fatal' = "none" /\ returned'.kind = "deno_mod"
       /\ deno_run_microtasks(1) => fatal' = "none" /\ Len(stack') = 1
       /\ deno_terminate_execution => fatal' = "none"]_vars

C38_Witness ==
  /\ isolate_ /\ has_snapshotted_ /\ ~context_ /\ snapshot_creator_
  /\ fatal = "deno_execute: assertion failed: !context_.is_empty()"
  /\ DOMAIN mods_ # {}

\* C38 (as stated): as above, and the operations that succeed on the
\* isolate after the snapshot are only clear_last_exception,
\* mod_imports_len, mod_imports_get, lock, unlock and delete.
C38_OnlyContextFreeOperationsSucceed ==
  [][(isolate_ /\ has_snapshotted_ /\ fatal = "none") =>
       /\ C38_ContextOperationsFail
       /\ (HostAtTopLevel /\ fatal' = "none") => C38_ContextFreeOperation]_vars

\* C39: an id that is 0 or not registered leaves mods_, mods_by_name_ and
\* last_exception_ as they are in each of the four operations:
\* deno_mod_imports_get returns None, deno_mod_instantiate returns without
\* instantiating a module and without an error, deno_mod_imports_len and
\* deno_mod_evaluate panic; get_module_info(0) is None in every state.
C39_UnknownIdHandledPerOperation ==
  [][(HostAtTopLevel /\ context_) =>
       /\ ~get_module_info(0)
       /\ \A id \in 0..MaxMods :
            (id = 0 \/ id \notin DOMAIN mods_) =>
              /\ \A index \in 0..MaxIndex :
                   deno_mod_imports_get(id, index) =>
                     returned' = NoneString /\ fatal' = "none" /\ mods_' = mods_ /\ mods_by_name_' = mods_by_name_ /\ last_exception_' = last_exception_
              /\ \A u \in HostUserDatas :
                   deno_mod_instantiate(u, id, [s \in Specifiers |-> 0]) =>
                     fatal' = "none" /\ module_status' = module_status /\ mods_' = mods_ /\ mods_by_name_' = mods_by_name_ /\ last_exception_' = last_exception_
              /\ deno_mod_imports_len(id) =>
                   fatal' = "deno_mod_imports_len: get_module_info(id).unwrap() on None" /\ mods_' = mods_ /\ mods_by_name_' = mods_by_name_ /\ last_exception_' = last_exception_
              /\ \A u \in HostUserDatas :
                   deno_mod_evaluate(u, id) =>
                     fatal' = "deno_mod_evaluate: ModuleInfo not found" /\ mods_' = mods_ /\ mods_by_name_' = mods_by_name_ /\ last_exception_' = last_exception_]_vars

\* C40: the user_data that send hands to recv_cb is the user_data of the
\* host entry call whose JavaScript called send, the innermost one on the
\* stack; the user_data every call of the host resolver gets is that of
\* the deno_mod_instantiate that is running; and between calls, at top
\* level, user_data_ is null again.
C40_SendPassesInnermostUserData ==
  /\ \A i \in SendFrames :
       /\ i > 1
       /\ stack[i - 1].kind \in ScopeKinds
       /\ stack[i].cb.user_data = stack[i - 1].data
       /\ \A j \in ScopeFrames : j < i => j <= i - 1
  /\ (fatal = "none" /\ stack = <<>>) => user_data_ = NullPtr

C40_CallbacksGetInnermostUserData ==
  /\ C40_SendPassesInnermostUserData
  /\ [][/\ C40_SendPassesInnermostUserData'
        /\ \A u \in HostUserDatas, id \in 1..MaxMods, res \in ModuleResolvers :
             (deno_mod_instantiate(u, id, res) /\ fatal' = "none") =>
               \A k \in 1..Len(resolve_log') : resolve_log'[k].user_data = u
        /\ (resolve_log' # <<>> => \E u \in HostUserDatas, id \in 1..MaxMods, res \in ModuleResolvers : deno_mod_instantiate(u, id, res))]_vars

C40_Witness ==
  /\ fatal = "none" /\ Len(stack) = 4
  /\ stack[1].kind = "deno_execute" /\ stack[1].data = NullPtr
  /\ stack[2].kind = "send" /\ stack[2].cb.user_data = NullPtr
  /\ stack[3].kind \in ScopeKinds /\ stack[3].data = 1
  /\ stack[4].kind = "send" /\ stack[4].cb.user_data = 1

====
